---- MODULE Spec2Model ----
(***************************************************************************)
(* A model of src/src/t31.c, the T.31 class 1 FAX modem engine of spandsp. *)
(*                                                                         *)
(* The t31_state_t instance (with the at_state and t38 fields the file     *)
(* touches) is the record s.  Every handler of the file is an operator     *)
(* from a machine m = [s, dte, ctl, pkt, ...] to a machine, so that a      *)
(* handler that calls another (t31_rx -> restart_modem, process_rx_data -> *)
(* hdlc_accept) is the composition the code performs.  dte, ctl and pkt    *)
(* are what the last entry point handed to the DTE, to the host's modem    *)
(* control handler and to the T.38 packet handler.                         *)
(***************************************************************************)
EXTENDS Integers, Sequences, FiniteSets, TLC

VARIABLES
    s,      \* the t31_state_t instance
    dte,    \* bytes and result codes given to the DTE by the last entry point
    ctl,    \* modem control calls passed to the host by the last entry point
    pkt,    \* T.38 indicator/data packets sent by the last entry point
    op,     \* the last entry point and its arguments
    obs     \* observations of the run (history the properties refer to)

vars == <<s, dte, ctl, pkt, op, obs>>

-----------------------------------------------------------------------------
(* Program constants *)

T31_FLUSH == 0
T31_SILENCE_TX == 1
T31_SILENCE_RX == 2
T31_CED_TONE == 3
T31_CNG_TONE == 4
T31_NOCNG_TONE == 5
T31_V21_TX == 6
T31_V17_TX == 7
T31_V27TER_TX == 8
T31_V29_TX == 9
T31_V21_RX == 10
T31_V17_RX == 11
T31_V27TER_RX == 12
T31_V29_RX == 13

ETX == 3
DLE == 16
SUB == 26

MS_PER_TX_CHUNK == 30
INDICATOR_TX_COUNT == 3
DATA_TX_COUNT == 1
DATA_END_TX_COUNT == 3
MID_RX_TIMEOUT == 15000

\* Result codes of the AT interpreter, as the values stored in rx_queue
AT_RESPONSE_CODE_OK == 0
AT_RESPONSE_CODE_CONNECT == 1
AT_RESPONSE_CODE_NO_CARRIER == 3
AT_RESPONSE_CODE_ERROR == 4
AT_RESPONSE_CODE_FCERROR == 9
AT_RESPONSE_CODE_FRH3 == 10

\* 8000 samples/s
ms_to_samples(t) == t * 8

-----------------------------------------------------------------------------
(* Bounds of the model.  The buffers are modelled at a reduced size: the     *)
(* code compares against T31_TX_BUF_LEN - 1, T31_TX_BUF_LEN - 1024 and 1024, *)
(* here TxBufLen - 1, TxBufLen - TxTide and TxTide.                          *)

TxBufLen == 5       \* T31_TX_BUF_LEN (tx_data[])
TxTide == 2         \* the 1024 octets of the flow control thresholds
HdlcTxBufLen == 5   \* the 266 octets of hdlc_tx_buf[]
MaxOverrun == 2     \* how far past a buffer's end the model follows the indices
MaxQueue == 3       \* messages rx_queue holds (4096 octets in the code)
MaxCallSamples == 90000   \* call_samples / samples are followed up to here
MaxSamples == 250000      \* samples where the 15 s receive timeout has to pass

-----------------------------------------------------------------------------
(* Helpers *)

Min(a, b) == IF a < b THEN a ELSE b

\* A result code as an item of the DTE stream, kept apart from data bytes
RC(code) == 1000 + code

\* The value the C code sees in a byte array at index i: the model stores
\* arrays as functions over their in-bounds indices.
At(arr, i) == IF i \in DOMAIN arr THEN arr[i] ELSE 0

\* Special "bits" of the modems' put_bit interface (spandsp/async.h)
PUTBIT_CARRIER_DOWN == -1
PUTBIT_CARRIER_UP == -2
PUTBIT_TRAINING_SUCCEEDED == -3
PUTBIT_TRAINING_FAILED == -4
PUTBIT_FRAMING_OK == -5
PUTBIT_END_OF_DATA == -6
PUTBIT_ABORT == -7

\* x with every DLE doubled: what T.31 asks of the data a modem sends its DTE
RECURSIVE DoubleDle(_)
DoubleDle(x) ==
    IF x = <<>>
    THEN <<>>
    ELSE (IF Head(x) = DLE THEN <<DLE, DLE>> ELSE <<Head(x)>>) \o DoubleDle(Tail(x))

\* The data octets of what the DTE was sent, its result codes left out
DataOf(out) == SelectSeq(out, LAMBDA b : b < 1000)

-----------------------------------------------------------------------------
(* The machine the handlers transform *)

\* A machine at the start of an entry point: nothing sent yet.
Enter(st) ==
    [s |-> st, dte |-> <<>>, ctl |-> <<>>, pkt |-> <<>>,
     restarted |-> FALSE,   \* restart_modem ran past its same-role check
     wr |-> -1,             \* highest tx_data index stored to
     hwr |-> -1,            \* highest hdlc_tx_buf index stored to
     framed |-> <<>>,       \* frames handed to hdlc_tx_frame
     accepted |-> <<>>,     \* the calls of hdlc_accept: its len and ok
     fields |-> <<>>,       \* the len of the HDLC_DATA field process_rx_data got
     bits |-> <<>>,         \* bits non_ecm_get_bit gave the modulator
     ret |-> 0]             \* the value the last called function returned

\* at_put_response_code: the result code reaches the DTE
at_put_response_code(m, code) == [m EXCEPT !.dte = Append(@, RC(code))]

\* s->at_state.at_tx_handler(..., rx_data, rx_data_bytes)
at_tx_handler(m, buf) == [m EXCEPT !.dte = @ \o buf]

\* at_modem_control for the operations t31_modem_control_handler passes on
\* to the host's modem_control_handler (CTS, HANGUP)
at_modem_control(m, what, arg) ==
    [m EXCEPT !.ctl = Append(@, <<what, arg>>)]

t31_set_at_rx_mode(m, new_mode) == [m EXCEPT !.s.at_rx_mode = new_mode]

\* queue_flush / queue_write_msg / queue_read_msg on rx_queue.  A message
\* that does not fit is not written.
\* queue_flush leaving the messages in the queue
queue_flush_keep(m) == m

queue_flush(m) == [m EXCEPT !.s.rx_queue = <<>>]

queue_write_msg(m, buf) ==
    IF Len(m.s.rx_queue) < MaxQueue
    THEN [m EXCEPT !.s.rx_queue = Append(@, buf)]
    ELSE m

\* t38_core_send_indicator: the packet goes out count times and the core
\* remembers the indicator
t38_core_send_indicator(m, ind, count) ==
    [m EXCEPT !.pkt = Append(@, [type |-> "indicator", what |-> ind,
                                 buf |-> <<>>, count |-> count]),
              !.s.current_tx_indicator = ind]

t38_core_send_data(m, field_type, buf, count) ==
    [m EXCEPT !.pkt = Append(@, [type |-> "data", what |-> field_type,
                                 buf |-> buf, count |-> count])]

-----------------------------------------------------------------------------
(* t31_init *)

S7Values == {10}

t31_init(t38_handler, far, s7) ==
    [modem |-> -1,
     t38_mode |-> FALSE,
     bit_rate |-> 0,
     short_train |-> FALSE,
     rx_handler |-> "dummy_rx",
     tx_handler |-> "silence_gen",
     next_tx_handler |-> "NULL",
     tx_data |-> [i \in 0..(TxBufLen - 1) |-> 0],
     tx_in_bytes |-> 0,
     tx_out_bytes |-> 0,
     tx_holding |-> FALSE,
     tx_data_started |-> FALSE,
     data_final |-> FALSE,
     hdlc_final |-> FALSE,
     hdlc_tx_buf |-> [i \in 0..(HdlcTxBufLen - 1) |-> 0],
     hdlc_tx_len |-> 0,
     hdlc_tx_ptr |-> 0,
     hdlc_rx_len |-> 0,
     missing_data |-> FALSE,
     dled |-> FALSE,
     bit_no |-> 0,
     current_byte |-> 0,
     samples |-> 0,
     call_samples |-> 0,
     next_tx_samples |-> 0,
     timeout_rx_samples |-> 0,
     dte_data_timeout |-> 0,
     timed_step |-> "T38_TIMED_STEP_NONE",
     current_rx_type |-> 0,
     current_tx_type |-> 0,
     next_tx_indicator |-> "T38_IND_NO_SIGNAL",
     trailer_bytes |-> 0,
     octets_per_data_packet |-> 0,
     merge_tx_fields |-> FALSE,
     use_tep |-> FALSE,
     indicator_tx_count |-> IF t38_handler THEN INDICATOR_TX_COUNT ELSE 0,
     data_end_tx_count |-> IF t38_handler THEN DATA_END_TX_COUNT ELSE 0,
     ms_per_tx_chunk |-> IF t38_handler THEN MS_PER_TX_CHUNK ELSE 0,
     rx_message_received |-> FALSE,
     silence_heard |-> 0,
     silence_awaited |-> 0,
     transmit_on_idle |-> FALSE,
     rx_queue |-> <<>>,
     \* at_state
     at_rx_mode |-> "AT_MODE_ONHOOK_COMMAND",
     rx_signal_present |-> FALSE,
     rx_trained |-> FALSE,
     transmit |-> TRUE,
     dte_is_waiting |-> FALSE,
     ok_is_pending |-> FALSE,
     do_hangup |-> FALSE,
     rx_data |-> <<>>,
     adaptive_receive |-> far,
     s_reg7 |-> s7,
     \* t38 (the core's state)
     t38_handler |-> t38_handler,
     current_tx_indicator |-> "none",
     current_rx_indicator |-> "none",
     current_rx_data_type |-> "none",
     current_rx_field_type |-> "none"]

-----------------------------------------------------------------------------
(* restart_modem *)

t31_v21_rx(m) ==
    [m EXCEPT !.s.ok_is_pending = FALSE,
              !.s.hdlc_final = FALSE,
              !.s.hdlc_tx_len = 0,
              !.s.dled = FALSE,
              !.s.transmit = TRUE]

\* The training indicator restart_modem picks for a fast transmit modem
tx_training_indicator(modem, bit_rate, short_train) ==
    CASE modem = T31_V17_TX ->
            (CASE bit_rate = 7200 ->
                    IF short_train THEN "T38_IND_V17_7200_SHORT_TRAINING"
                                   ELSE "T38_IND_V17_7200_LONG_TRAINING"
               [] bit_rate = 9600 ->
                    IF short_train THEN "T38_IND_V17_9600_SHORT_TRAINING"
                                   ELSE "T38_IND_V17_9600_LONG_TRAINING"
               [] bit_rate = 12000 ->
                    IF short_train THEN "T38_IND_V17_12000_SHORT_TRAINING"
                                   ELSE "T38_IND_V17_12000_LONG_TRAINING"
               [] OTHER ->
                    IF short_train THEN "T38_IND_V17_14400_SHORT_TRAINING"
                                   ELSE "T38_IND_V17_14400_LONG_TRAINING")
      [] modem = T31_V27TER_TX ->
            (IF bit_rate = 2400 THEN "T38_IND_V27TER_2400_TRAINING"
                                ELSE "T38_IND_V27TER_4800_TRAINING")
      [] OTHER ->
            (IF bit_rate = 7200 THEN "T38_IND_V29_7200_TRAINING"
                                ELSE "T38_IND_V29_9600_TRAINING")

\* The switch of restart_modem, one case per role
restart_modem_role(m) ==
    LET r == m.s.modem
        t38 == m.s.t38_mode
        role_fast_tx(h) ==
            LET a == IF t38
                     THEN t38_core_send_indicator(m,
                              tx_training_indicator(r, m.s.bit_rate, m.s.short_train),
                              INDICATOR_TX_COUNT)
                     ELSE [m EXCEPT !.s.tx_handler = h,
                                    !.s.next_tx_handler = "NULL"]
            IN [a EXCEPT !.s.tx_out_bytes = 0,
                         !.s.tx_data_started = FALSE,
                         !.s.transmit = TRUE]
        role_fast_rx(h) ==
            LET a == IF ~t38
                     THEN t31_v21_rx([m EXCEPT !.s.rx_handler = h])
                     ELSE m
            IN [a EXCEPT !.s.transmit = FALSE]
    IN
    CASE r = T31_CNG_TONE ->
            LET a == IF t38
                     THEN t38_core_send_indicator(m, "T38_IND_CNG", INDICATOR_TX_COUNT)
                     ELSE LET b == t31_v21_rx([m EXCEPT !.s.rx_handler = "cng_rx"])
                          IN [b EXCEPT !.s.tx_handler = "tone_gen",
                                       !.s.next_tx_handler = "NULL"]
            IN [a EXCEPT !.s.transmit = TRUE]
      [] r = T31_NOCNG_TONE ->
            LET a == IF t38
                     THEN m
                     ELSE LET b == t31_v21_rx([m EXCEPT !.s.rx_handler = "cng_rx"])
                          IN [b EXCEPT !.s.tx_handler = "silence_gen"]
            IN [a EXCEPT !.s.transmit = FALSE]
      [] r = T31_CED_TONE ->
            LET a == IF t38
                     THEN t38_core_send_indicator(m, "T38_IND_CED", INDICATOR_TX_COUNT)
                     ELSE [m EXCEPT !.s.tx_handler = "silence_gen",
                                    !.s.next_tx_handler = "tone_gen"]
            IN [a EXCEPT !.s.transmit = TRUE]
      [] r = T31_V21_TX ->
            LET a == IF t38
                     THEN t38_core_send_indicator(m, "T38_IND_V21_PREAMBLE", INDICATOR_TX_COUNT)
                     ELSE [m EXCEPT !.s.tx_handler = "fsk_tx",
                                    !.s.next_tx_handler = "NULL"]
            IN [a EXCEPT !.s.hdlc_final = FALSE,
                         !.s.hdlc_tx_len = 0,
                         !.s.dled = FALSE,
                         !.s.transmit = TRUE]
      [] r = T31_V21_RX ->
            IF t38 THEN m ELSE t31_v21_rx([m EXCEPT !.s.rx_handler = "fsk_rx"])
      [] r = T31_V17_TX -> role_fast_tx("v17_tx")
      [] r = T31_V17_RX -> role_fast_rx("early_v17_rx")
      [] r = T31_V27TER_TX -> role_fast_tx("v27ter_tx")
      [] r = T31_V27TER_RX -> role_fast_rx("early_v27ter_rx")
      [] r = T31_V29_TX -> role_fast_tx("v29_tx")
      [] r = T31_V29_RX -> role_fast_rx("early_v29_rx")
      [] r = T31_SILENCE_TX ->
            LET a == IF t38
                     THEN t38_core_send_indicator(m, "T38_IND_NO_SIGNAL", INDICATOR_TX_COUNT)
                     ELSE [m EXCEPT !.s.tx_handler = "silence_gen",
                                    !.s.next_tx_handler = "NULL"]
            IN [a EXCEPT !.s.transmit = FALSE]
      [] r = T31_SILENCE_RX ->
            LET a == IF ~t38
                     THEN [m EXCEPT !.s.rx_handler = "silence_rx",
                                    !.s.tx_handler = "silence_gen",
                                    !.s.next_tx_handler = "NULL"]
                     ELSE m
            IN [a EXCEPT !.s.transmit = FALSE]
      [] r = T31_FLUSH ->
            IF t38
            THEN t38_core_send_indicator(m, "T38_IND_NO_SIGNAL", INDICATOR_TX_COUNT)
            ELSE [m EXCEPT !.s.modem = T31_SILENCE_TX,
                           !.s.tx_handler = "silence_gen",
                           !.s.next_tx_handler = "NULL",
                           !.s.transmit = TRUE]
      [] OTHER -> m

\* restart_modem without its test for the role the modem already has
restart_modem_always(m, new_modem) ==
    LET a == queue_flush(m)
        b == [a EXCEPT !.s.modem = new_modem,
                       !.s.data_final = FALSE,
                       !.s.rx_signal_present = FALSE,
                       !.s.rx_trained = FALSE,
                       !.s.rx_message_received = FALSE,
                       !.s.rx_handler = "dummy_rx",
                       !.restarted = TRUE]
        c == restart_modem_role(b)
    IN [c EXCEPT !.s.bit_no = 0,
                 !.s.current_byte = 255,
                 !.s.tx_in_bytes = 0,
                 !.s.tx_out_bytes = 0]

restart_modem(m, new_modem) ==
    IF m.s.modem = new_modem
    THEN m
    ELSE LET a == queue_flush(m)
             b == [a EXCEPT !.s.modem = new_modem,
                            !.s.data_final = FALSE,
                            !.s.rx_signal_present = FALSE,
                            !.s.rx_trained = FALSE,
                            !.s.rx_message_received = FALSE,
                            !.s.rx_handler = "dummy_rx",
                            !.restarted = TRUE]
             c == restart_modem_role(b)
         IN [c EXCEPT !.s.bit_no = 0,
                      !.s.current_byte = 255,
                      !.s.tx_in_bytes = 0,
                      !.s.tx_out_bytes = 0]

-----------------------------------------------------------------------------
(* DTE byte framers *)

Max(a, b) == IF a > b THEN a ELSE b

\* s->hdlc_tx_buf[s->hdlc_tx_len++] = b.  A store past the array's end lands
\* outside hdlc_tx_buf: the model keeps the index (hwr) and the array as is.
hdlc_tx_store(m, b) ==
    LET i == m.s.hdlc_tx_len
    IN [m EXCEPT !.s.hdlc_tx_buf = IF i \in DOMAIN @ THEN [@ EXCEPT ![i] = b] ELSE @,
                 !.s.hdlc_tx_len = i + 1,
                 !.hwr = Max(@, i)]

\* hdlc_tx_frame(&s->hdlctx, s->hdlc_tx_buf, s->hdlc_tx_len)
hdlc_tx_frame(m) ==
    [m EXCEPT !.framed = Append(@, [i \in 1..m.s.hdlc_tx_len |->
                                       At(m.s.hdlc_tx_buf, i - 1)])]

\* (x & 0x10) != 0
Bit10(x) == (x \div 16) % 2 = 1

\* One pass of the loop body of dle_unstuff_hdlc, for the byte c
dle_unstuff_hdlc_byte(m, c) ==
    IF m.s.dled
    THEN LET a == [m EXCEPT !.s.dled = FALSE]
         IN IF c = ETX
            THEN LET b == IF a.s.t38_mode THEN a ELSE hdlc_tx_frame(a)
                 IN [b EXCEPT !.s.hdlc_final = Bit10(At(b.s.hdlc_tx_buf, 1)),
                              !.s.hdlc_tx_len = 0]
            ELSE IF c = SUB
            THEN hdlc_tx_store(hdlc_tx_store(a, DLE), DLE)
            ELSE hdlc_tx_store(a, c)
    ELSE IF c = DLE
         THEN [m EXCEPT !.s.dled = TRUE]
         ELSE hdlc_tx_store(m, c)

RECURSIVE dle_unstuff_hdlc_from(_, _, _)
dle_unstuff_hdlc_from(m, stuffed, i) ==
    IF i > Len(stuffed)
    THEN m
    ELSE dle_unstuff_hdlc_from(dle_unstuff_hdlc_byte(m, stuffed[i]), stuffed, i + 1)

dle_unstuff_hdlc(m, stuffed) == dle_unstuff_hdlc_from(m, stuffed, 1)

\* s->tx_data[s->tx_in_bytes++] = b, with the index kept in wr
tx_data_store(m, b) ==
    LET i == m.s.tx_in_bytes
    IN [m EXCEPT !.s.tx_data = IF i \in DOMAIN @ THEN [@ EXCEPT ![i] = b] ELSE @,
                 !.s.tx_in_bytes = i + 1,
                 !.wr = Max(@, i)]

\* The flow control test dle_unstuff makes after its loop
dle_unstuff_hold(m) ==
    IF ~m.s.tx_holding /\ m.s.tx_in_bytes > TxBufLen - TxTide
    THEN at_modem_control([m EXCEPT !.s.tx_holding = TRUE], "CTS", 0)
    ELSE m

RECURSIVE dle_unstuff_from(_, _, _)
dle_unstuff_from(m, stuffed, i) ==
    IF i > Len(stuffed)
    THEN dle_unstuff_hold(m)
    ELSE LET c == stuffed[i]
         IN IF m.s.dled /\ c = ETX
            THEN \* end of data: return
                 t31_set_at_rx_mode([m EXCEPT !.s.dled = FALSE,
                                              !.s.data_final = TRUE],
                                    "AT_MODE_OFFHOOK_COMMAND")
            ELSE IF ~m.s.dled /\ c = DLE
            THEN dle_unstuff_from([m EXCEPT !.s.dled = TRUE], stuffed, i + 1)
            ELSE LET a == tx_data_store([m EXCEPT !.s.dled = FALSE], c)
                 IN IF a.s.tx_in_bytes > TxBufLen - 1
                    THEN a      \* "No room in buffer for new data!": return
                    ELSE dle_unstuff_from(a, stuffed, i + 1)

dle_unstuff(m, stuffed) == dle_unstuff_from(m, stuffed, 1)

-----------------------------------------------------------------------------
(* Bit pumps *)

non_ecm_get_bit_byte(m) ==
    IF m.s.tx_out_bytes # m.s.tx_in_bytes
    THEN LET o == m.s.tx_out_bytes + 1
             a == [m EXCEPT !.s.current_byte = At(m.s.tx_data, m.s.tx_out_bytes),
                            !.s.tx_out_bytes = IF o > TxBufLen - 1 THEN TxBufLen - 1 ELSE o]
             b == IF a.s.tx_holding /\ a.s.tx_out_bytes > TxTide
                  THEN at_modem_control([a EXCEPT !.s.tx_holding = FALSE], "CTS", 1)
                  ELSE a
         IN [b EXCEPT !.s.tx_data_started = TRUE, !.s.bit_no = 8]
    ELSE IF m.s.data_final
         THEN [m EXCEPT !.s.data_final = FALSE, !.ret = PUTBIT_END_OF_DATA]
         ELSE [m EXCEPT !.s.current_byte = IF m.s.tx_data_started THEN 0 ELSE 255,
                        !.s.bit_no = 8]

non_ecm_get_bit(m) ==
    LET z == [m EXCEPT !.ret = 0]
        a == IF z.s.bit_no <= 0 THEN non_ecm_get_bit_byte(z) ELSE z
    IN IF a.ret = PUTBIT_END_OF_DATA
       THEN a
       ELSE [a EXCEPT !.s.bit_no = @ - 1,
                      !.ret = a.s.current_byte % 2,
                      !.s.current_byte = @ \div 2]

\* The DLE ETX that ends the data on the uplink: rx_data goes to the DTE
flush_dle_etx(m) ==
    [at_tx_handler(m, m.s.rx_data \o <<DLE, ETX>>) EXCEPT !.s.rx_data = <<>>]

RxFlushLen == 2     \* the 250 octets after which non_ecm_put_bit flushes rx_data

\* non_ecm_put_bit ending the data at every carrier down, trained or not
non_ecm_put_bit_always(m, bit) ==
    IF bit < 0
    THEN CASE bit = PUTBIT_TRAINING_FAILED -> [m EXCEPT !.s.rx_trained = FALSE]
           [] bit = PUTBIT_TRAINING_SUCCEEDED ->
                [at_put_response_code(m, AT_RESPONSE_CODE_CONNECT)
                    EXCEPT !.s.rx_signal_present = TRUE, !.s.rx_trained = TRUE]
           [] bit = PUTBIT_CARRIER_DOWN ->
                [t31_set_at_rx_mode(
                     at_put_response_code(flush_dle_etx(m), AT_RESPONSE_CODE_NO_CARRIER),
                     "AT_MODE_OFFHOOK_COMMAND")
                    EXCEPT !.s.rx_signal_present = FALSE, !.s.rx_trained = FALSE]
           [] OTHER -> m
    ELSE LET cb == ((m.s.current_byte \div 2) % 128) + (bit * 128)
         IN IF m.s.bit_no + 1 >= 8
            THEN LET d == IF cb = DLE THEN <<cb, cb>> ELSE <<cb>>
                     a == [m EXCEPT !.s.rx_data = @ \o d,
                                    !.s.bit_no = 0,
                                    !.s.current_byte = 0]
                 IN IF Len(a.s.rx_data) >= RxFlushLen
                    THEN [at_tx_handler(a, a.s.rx_data) EXCEPT !.s.rx_data = <<>>]
                    ELSE a
            ELSE [m EXCEPT !.s.current_byte = cb, !.s.bit_no = @ + 1]

non_ecm_put_bit(m, bit) ==
    IF bit < 0
    THEN CASE bit = PUTBIT_TRAINING_FAILED -> [m EXCEPT !.s.rx_trained = FALSE]
           [] bit = PUTBIT_TRAINING_SUCCEEDED ->
                [at_put_response_code(m, AT_RESPONSE_CODE_CONNECT)
                    EXCEPT !.s.rx_signal_present = TRUE, !.s.rx_trained = TRUE]
           [] bit = PUTBIT_CARRIER_DOWN ->
                LET a == IF m.s.rx_signal_present
                         THEN t31_set_at_rx_mode(
                                  at_put_response_code(flush_dle_etx(m),
                                                       AT_RESPONSE_CODE_NO_CARRIER),
                                  "AT_MODE_OFFHOOK_COMMAND")
                         ELSE m
                IN [a EXCEPT !.s.rx_signal_present = FALSE, !.s.rx_trained = FALSE]
           [] OTHER -> m
    ELSE LET cb == ((m.s.current_byte \div 2) % 128) + (bit * 128)
         IN IF m.s.bit_no + 1 >= 8
            THEN LET d == IF cb = DLE THEN <<cb, cb>> ELSE <<cb>>
                     a == [m EXCEPT !.s.rx_data = @ \o d,
                                    !.s.bit_no = 0,
                                    !.s.current_byte = 0]
                 IN IF Len(a.s.rx_data) >= RxFlushLen
                    THEN [at_tx_handler(a, a.s.rx_data) EXCEPT !.s.rx_data = <<>>]
                    ELSE a
            ELSE [m EXCEPT !.s.current_byte = cb, !.s.bit_no = @ + 1]

\* hdlc_tx_underflow without its test of hdlc_final
hdlc_tx_underflow_connect(m) == at_put_response_code(m, AT_RESPONSE_CODE_CONNECT)

\* hdlc_tx_underflow; hdlc_tx_frame(NULL, 0) starts the transmitter's shutdown
hdlc_tx_underflow(m) ==
    IF m.s.hdlc_final
    THEN [m EXCEPT !.s.hdlc_final = FALSE, !.framed = Append(@, <<>>)]
    ELSE at_put_response_code(m, AT_RESPONSE_CODE_CONNECT)

-----------------------------------------------------------------------------
(* hdlc_accept *)

\* The copying loop without its test for DLE: every octet once
stuff_plain(x) == x

\* The DLE stuffing of the uplink, in hdlc_accept and in the +FRH loop: every
\* DLE is doubled.  The octets are taken half by half, which keeps the
\* evaluation shallow for frames of some hundred octets
RECURSIVE stuff(_)
stuff(x) ==
    IF Len(x) <= 1
    THEN (IF x # <<>> /\ x[1] = DLE THEN <<DLE, DLE>> ELSE x)
    ELSE LET h == Len(x) \div 2
         IN stuff(SubSeq(x, 1, h)) \o stuff(SubSeq(x, h + 1, Len(x)))

\* hdlc_accept's CONNECT without the note that it has been given
hdlc_accept_connect_again(m) ==
    IF ~m.s.rx_message_received
    THEN IF m.s.dte_is_waiting
         THEN at_put_response_code(m, AT_RESPONSE_CODE_CONNECT)
         ELSE queue_write_msg(m, <<AT_RESPONSE_CODE_CONNECT>>)
    ELSE m

\* CONNECT for the first data after carrier up: to the waiting DTE, or queued
hdlc_accept_connect(m) ==
    IF ~m.s.rx_message_received
    THEN IF m.s.dte_is_waiting
         THEN [at_put_response_code(m, AT_RESPONSE_CODE_CONNECT)
                  EXCEPT !.s.rx_message_received = TRUE]
         ELSE queue_write_msg(m, <<AT_RESPONSE_CODE_CONNECT>>)
    ELSE m

hdlc_accept_special(m, len) ==
    CASE len = PUTBIT_TRAINING_FAILED -> [m EXCEPT !.s.rx_trained = FALSE]
      [] len = PUTBIT_TRAINING_SUCCEEDED ->
            [m EXCEPT !.s.rx_signal_present = TRUE, !.s.rx_trained = TRUE]
      [] len = PUTBIT_CARRIER_UP ->
            IF m.s.modem \in {T31_CNG_TONE, T31_NOCNG_TONE, T31_V21_RX}
            THEN [m EXCEPT !.s.rx_signal_present = TRUE,
                           !.s.rx_message_received = FALSE]
            ELSE m
      [] len = PUTBIT_CARRIER_DOWN ->
            LET a == IF m.s.rx_message_received
                     THEN IF m.s.dte_is_waiting
                          THEN LET b == IF m.s.ok_is_pending
                                        THEN [at_put_response_code(m, AT_RESPONSE_CODE_OK)
                                                 EXCEPT !.s.ok_is_pending = FALSE]
                                        ELSE at_put_response_code(m, AT_RESPONSE_CODE_NO_CARRIER)
                               IN t31_set_at_rx_mode([b EXCEPT !.s.dte_is_waiting = FALSE],
                                                     "AT_MODE_OFFHOOK_COMMAND")
                          ELSE queue_write_msg(m, <<AT_RESPONSE_CODE_NO_CARRIER>>)
                     ELSE m
            IN [a EXCEPT !.s.rx_signal_present = FALSE, !.s.rx_trained = FALSE]
      [] len = PUTBIT_FRAMING_OK ->
            LET a == IF m.s.modem \in {T31_CNG_TONE, T31_NOCNG_TONE}
                     THEN [m EXCEPT !.s.modem = T31_V21_RX, !.s.transmit = FALSE]
                     ELSE m
            IN IF a.s.modem \in {T31_V17_RX, T31_V27TER_RX, T31_V29_RX}
               THEN IF a.s.adaptive_receive
                    THEN at_put_response_code(
                             at_put_response_code(
                                 [a EXCEPT !.s.rx_signal_present = TRUE,
                                           !.s.rx_message_received = TRUE,
                                           !.s.modem = T31_V21_RX,
                                           !.s.transmit = FALSE,
                                           !.s.dte_is_waiting = TRUE],
                                 AT_RESPONSE_CODE_FRH3),
                             AT_RESPONSE_CODE_CONNECT)
                    ELSE at_put_response_code(
                             [t31_set_at_rx_mode([a EXCEPT !.s.modem = T31_SILENCE_TX],
                                                 "AT_MODE_OFFHOOK_COMMAND")
                                 EXCEPT !.s.rx_message_received = FALSE],
                             AT_RESPONSE_CODE_FCERROR)
               ELSE hdlc_accept_connect(a)
      [] OTHER -> m

\* A frame: msg holds the len octets of the frame and the two FCS octets
hdlc_accept_frame(m, msg, len, ok) ==
    LET a == hdlc_accept_connect(m)
        code == IF ok THEN AT_RESPONSE_CODE_OK ELSE AT_RESPONSE_CODE_ERROR
        body == SubSeq(msg, 1, len + 2)
        b == IF ~a.s.ok_is_pending
             THEN IF a.s.dte_is_waiting
                  THEN LET c == [at_tx_handler(a, a.s.rx_data \o stuff(body) \o <<DLE, ETX>>)
                                    EXCEPT !.s.rx_data = <<>>]
                       IN IF msg[2] = 19 /\ ok
                          THEN [c EXCEPT !.s.ok_is_pending = TRUE]
                          ELSE [at_put_response_code(c, code)
                                   EXCEPT !.s.dte_is_waiting = FALSE,
                                          !.s.rx_message_received = FALSE]
                  ELSE queue_write_msg(a, <<code>> \o body)
             ELSE a
    IN t31_set_at_rx_mode(b, "AT_MODE_OFFHOOK_COMMAND")

\* hdlc_accept taking the fallback to V.21 whatever +FAR says
hdlc_accept_far(m, msg, len, ok) ==
    LET a == [m EXCEPT !.accepted = Append(@, [len |-> len, ok |-> ok])]
    IN IF len < 0
       THEN hdlc_accept_special([a EXCEPT !.s.adaptive_receive = TRUE], len)
       ELSE hdlc_accept_frame(a, msg, len, ok)

hdlc_accept(m, msg, len, ok) ==
    LET a == [m EXCEPT !.accepted = Append(@, [len |-> len, ok |-> ok])]
    IN IF len < 0 THEN hdlc_accept_special(a, len) ELSE hdlc_accept_frame(a, msg, len, ok)

-----------------------------------------------------------------------------
(* process_class1_cmd *)

\* The loop going on after a message that is not CONNECT, to the last one
RECURSIVE class1_drain_all(_)
class1_drain_all(m) ==
    IF m.s.rx_queue # <<>>
    THEN LET msg == Head(m.s.rx_queue)
             a == [m EXCEPT !.s.rx_queue = Tail(@)]
             b == IF Len(msg) > 1
                  THEN LET c == IF msg[1] = AT_RESPONSE_CODE_OK
                                THEN at_put_response_code(a, AT_RESPONSE_CODE_CONNECT)
                                ELSE a
                       IN [at_tx_handler(c, c.s.rx_data \o stuff(Tail(msg)) \o <<DLE, ETX>>)
                              EXCEPT !.s.rx_data = <<>>]
                  ELSE a
         IN class1_drain_all(at_put_response_code(b, msg[1]))
    ELSE [m EXCEPT !.s.dte_is_waiting = TRUE]

\* The do ... while loop that sends what is queued when +FRH is given
RECURSIVE class1_drain(_)
class1_drain(m) ==
    IF m.s.rx_queue # <<>>
    THEN LET msg == Head(m.s.rx_queue)
             a == [m EXCEPT !.s.rx_queue = Tail(@)]
             b == IF Len(msg) > 1
                  THEN LET c == IF msg[1] = AT_RESPONSE_CODE_OK
                                THEN at_put_response_code(a, AT_RESPONSE_CODE_CONNECT)
                                ELSE a
                       IN [at_tx_handler(c, c.s.rx_data \o stuff(Tail(msg)) \o <<DLE, ETX>>)
                              EXCEPT !.s.rx_data = <<>>]
                  ELSE a
             d == at_put_response_code(b, msg[1])
         IN IF msg[1] = AT_RESPONSE_CODE_CONNECT THEN class1_drain(d) ELSE d
    ELSE [m EXCEPT !.s.dte_is_waiting = TRUE]

\* The table of the modulation commands: <<transmit role, receive role,
\* bit rate, short train>>, or <<>> for a value that is not in the table
\* The table with short training for 73 instead of 74
class1_table_73(val) ==
    CASE val = 24 -> <<T31_V27TER_TX, T31_V27TER_RX, 2400, FALSE>>
      [] val = 48 -> <<T31_V27TER_TX, T31_V27TER_RX, 4800, FALSE>>
      [] val = 72 -> <<T31_V29_TX, T31_V29_RX, 7200, FALSE>>
      [] val = 96 -> <<T31_V29_TX, T31_V29_RX, 9600, FALSE>>
      [] val = 73 -> <<T31_V17_TX, T31_V17_RX, 7200, TRUE>>
      [] val = 74 -> <<T31_V17_TX, T31_V17_RX, 7200, FALSE>>
      [] val = 97 -> <<T31_V17_TX, T31_V17_RX, 9600, FALSE>>
      [] val = 98 -> <<T31_V17_TX, T31_V17_RX, 9600, TRUE>>
      [] val = 121 -> <<T31_V17_TX, T31_V17_RX, 12000, FALSE>>
      [] val = 122 -> <<T31_V17_TX, T31_V17_RX, 12000, TRUE>>
      [] val = 145 -> <<T31_V17_TX, T31_V17_RX, 14400, FALSE>>
      [] val = 146 -> <<T31_V17_TX, T31_V17_RX, 14400, TRUE>>
      [] OTHER -> <<>>

class1_table(val) ==
    CASE val = 24 -> <<T31_V27TER_TX, T31_V27TER_RX, 2400, FALSE>>
      [] val = 48 -> <<T31_V27TER_TX, T31_V27TER_RX, 4800, FALSE>>
      [] val = 72 -> <<T31_V29_TX, T31_V29_RX, 7200, FALSE>>
      [] val = 96 -> <<T31_V29_TX, T31_V29_RX, 9600, FALSE>>
      [] val = 73 -> <<T31_V17_TX, T31_V17_RX, 7200, FALSE>>
      [] val = 74 -> <<T31_V17_TX, T31_V17_RX, 7200, TRUE>>
      [] val = 97 -> <<T31_V17_TX, T31_V17_RX, 9600, FALSE>>
      [] val = 98 -> <<T31_V17_TX, T31_V17_RX, 9600, TRUE>>
      [] val = 121 -> <<T31_V17_TX, T31_V17_RX, 12000, FALSE>>
      [] val = 122 -> <<T31_V17_TX, T31_V17_RX, 12000, TRUE>>
      [] val = 145 -> <<T31_V17_TX, T31_V17_RX, 14400, FALSE>>
      [] val = 146 -> <<T31_V17_TX, T31_V17_RX, 14400, TRUE>>
      [] OTHER -> <<>>

class1_silence(m, new_transmit, val) ==
    LET a == [m EXCEPT !.s.transmit = new_transmit]
    IN IF new_transmit
       THEN [restart_modem(a, T31_SILENCE_TX) EXCEPT !.s.transmit = TRUE]
       ELSE restart_modem(
                t31_set_at_rx_mode([queue_flush(a) EXCEPT !.s.silence_awaited = val * 80],
                                   "AT_MODE_DELIVERY"),
                T31_SILENCE_RX)

class1_hdlc(m, new_transmit) ==
    LET new_modem == IF new_transmit THEN T31_V21_TX ELSE T31_V21_RX
        a == [m EXCEPT !.s.short_train = FALSE, !.s.bit_rate = 300]
        b == IF new_modem # a.s.modem THEN restart_modem(a, new_modem) ELSE a
        c == [b EXCEPT !.s.transmit = new_transmit]
    IN IF new_transmit
       THEN at_put_response_code(t31_set_at_rx_mode(c, "AT_MODE_HDLC"),
                                 AT_RESPONSE_CODE_CONNECT)
       ELSE class1_drain([t31_set_at_rx_mode(c, "AT_MODE_DELIVERY")
                             EXCEPT !.s.rx_message_received = FALSE])

class1_modulation(m, new_transmit, val) ==
    LET e == class1_table(val)
        a == [m EXCEPT !.s.short_train = e[4], !.s.bit_rate = e[3]]
        b == IF new_transmit
             THEN at_put_response_code(t31_set_at_rx_mode(a, "AT_MODE_STUFFED"),
                                       AT_RESPONSE_CODE_CONNECT)
             ELSE t31_set_at_rx_mode(a, "AT_MODE_DELIVERY")
    IN restart_modem(b, IF new_transmit THEN e[1] ELSE e[2])

\* process_class1_cmd taking the direction before it looks the code up
process_class1_cmd_unknown(m, direction, operation, val) ==
    CASE operation = "S" -> [class1_silence(m, direction, val) EXCEPT !.ret = 0]
      [] operation = "H" ->
            IF val = 3
            THEN [class1_hdlc(m, direction) EXCEPT !.ret = 0]
            ELSE [m EXCEPT !.s.transmit = direction, !.ret = -1]
      [] OTHER ->
            IF class1_table(val) # <<>>
            THEN [class1_modulation(m, direction, val) EXCEPT !.ret = 0]
            ELSE [m EXCEPT !.s.transmit = direction, !.ret = -1]

\* direction is TRUE for transmit; operation is "S", "H" or "M"
process_class1_cmd(m, direction, operation, val) ==
    CASE operation = "S" -> [class1_silence(m, direction, val) EXCEPT !.ret = 0]
      [] operation = "H" ->
            IF val = 3
            THEN [class1_hdlc(m, direction) EXCEPT !.ret = 0]
            ELSE [m EXCEPT !.ret = -1]
      [] OTHER ->
            IF class1_table(val) # <<>>
            THEN [class1_modulation(m, direction, val) EXCEPT !.ret = 0]
            ELSE [m EXCEPT !.ret = -1]

-----------------------------------------------------------------------------
(* t31_at_rx *)

CommandMode(st) == st.at_rx_mode \in {"AT_MODE_ONHOOK_COMMAND", "AT_MODE_OFFHOOK_COMMAND"}

\* at_rx_delivery leaving the role at SILENCE_RX instead of SILENCE_TX
at_rx_delivery_silence_rx(m, t) ==
    IF Len(t) > 0
    THEN LET a == IF m.s.rx_signal_present
                  THEN at_tx_handler(m, m.s.rx_data \o <<DLE, ETX>>)
                  ELSE m
             b == [a EXCEPT !.s.rx_data = <<>>,
                            !.s.transmit = FALSE,
                            !.s.modem = T31_SILENCE_RX]
         IN at_put_response_code(t31_set_at_rx_mode(b, "AT_MODE_OFFHOOK_COMMAND"),
                                 AT_RESPONSE_CODE_OK)
    ELSE m

\* case AT_MODE_DELIVERY: data from the DTE returns us to command mode
at_rx_delivery(m, t) ==
    IF Len(t) > 0
    THEN LET a == IF m.s.rx_signal_present
                  THEN at_tx_handler(m, m.s.rx_data \o <<DLE, ETX>>)
                  ELSE m
             b == [a EXCEPT !.s.rx_data = <<>>,
                            !.s.transmit = FALSE,
                            !.s.modem = T31_SILENCE_TX]
         IN at_put_response_code(t31_set_at_rx_mode(b, "AT_MODE_OFFHOOK_COMMAND"),
                                 AT_RESPONSE_CODE_OK)
    ELSE m

\* case AT_MODE_STUFFED: make room in tx_data, then unstuff
at_rx_stuffed(m, t) ==
    LET o == m.s.tx_out_bytes
        n == m.s.tx_in_bytes - o
        a == IF o # 0
             THEN [m EXCEPT !.s.tx_in_bytes = n,
                            !.s.tx_data = [i \in DOMAIN @ |->
                                              IF i < n /\ (i + o) \in DOMAIN @
                                              THEN @[i + o] ELSE @[i]],
                            !.s.tx_out_bytes = 0]
             ELSE m
    IN dle_unstuff(a, t)

\* t31_at_rx leaving the deadline of the DTE timeout where it is
t31_at_rx_keep_deadline(m, t) ==
    LET b == CASE m.s.at_rx_mode = "AT_MODE_DELIVERY" -> at_rx_delivery(m, t)
               [] m.s.at_rx_mode = "AT_MODE_HDLC" -> dle_unstuff_hdlc(m, t)
               [] m.s.at_rx_mode = "AT_MODE_STUFFED" -> at_rx_stuffed(m, t)
               [] OTHER -> m
    IN [b EXCEPT !.ret = Len(t)]

t31_at_rx(m, t) ==
    LET a == IF m.s.dte_data_timeout # 0
             THEN [m EXCEPT !.s.dte_data_timeout = m.s.call_samples + ms_to_samples(5000)]
             ELSE m
        b == CASE a.s.at_rx_mode = "AT_MODE_DELIVERY" -> at_rx_delivery(a, t)
               [] a.s.at_rx_mode = "AT_MODE_HDLC" -> dle_unstuff_hdlc(a, t)
               [] a.s.at_rx_mode = "AT_MODE_STUFFED" -> at_rx_stuffed(a, t)
               [] OTHER -> a     \* at_interpreter: its calls back are entry points
    IN [b EXCEPT !.ret = Len(t)]

-----------------------------------------------------------------------------
(* t31_modem_control_handler *)

t31_modem_control_handler(m, what, num) ==
    CASE what \in {"ANSWER", "CALL"} ->
            at_modem_control([m EXCEPT !.s.call_samples = 0], what, num)
      [] what = "ONHOOK" ->
            LET a == IF m.s.tx_holding
                     THEN at_modem_control([m EXCEPT !.s.tx_holding = FALSE], "CTS", 1)
                     ELSE m
                b == IF a.s.rx_signal_present THEN flush_dle_etx(a) ELSE a
            IN at_modem_control(restart_modem(b, T31_SILENCE_TX), what, num)
      [] what = "RESTART" -> restart_modem(m, num)
      [] what = "DTE_TIMEOUT" ->
            [m EXCEPT !.s.dte_data_timeout =
                          IF num # 0 THEN m.s.call_samples + ms_to_samples(num) ELSE 0]
      [] OTHER -> at_modem_control(m, what, num)

-----------------------------------------------------------------------------
(* The receive handlers and t31_rx.  What the demodulators report in one     *)
(* block of samples is the event ev = [fast, v21]: fast is what the V.17,    *)
(* V.27ter or V.29 receiver passes to non_ecm_put_bit, v21 what the V.21     *)
(* HDLC receiver passes to hdlc_accept.                                      *)

NoEvent == [k |-> "none", v |-> 0, msg |-> <<>>, ok |-> FALSE]
Special(v) == [k |-> "special", v |-> v, msg |-> <<>>, ok |-> FALSE]
Octet(b) == [k |-> "octet", v |-> b, msg |-> <<>>, ok |-> FALSE]
Frame(msg, ok) == [k |-> "frame", v |-> Len(msg) - 2, msg |-> msg, ok |-> ok]

\* The event e is the status report v of a modem
IsSpecial(e, v) == e.k = "special" /\ e.v = v

\* The eight bits of an octet, least significant first
RECURSIVE put_bits(_, _, _)
put_bits(m, b, n) ==
    IF n = 0 THEN m ELSE put_bits(non_ecm_put_bit(m, b % 2), b \div 2, n - 1)

fast_rx(m, e) ==
    CASE e.k = "special" -> non_ecm_put_bit(m, e.v)
      [] e.k = "octet" -> put_bits(m, e.v, 8)
      [] OTHER -> m

fsk_rx(m, e) ==
    CASE e.k = "special" -> hdlc_accept(m, <<>>, e.v, TRUE)
      [] e.k = "frame" -> hdlc_accept(m, e.msg, e.v, e.ok)
      [] OTHER -> m

silence_rx(m) ==
    IF m.s.silence_awaited # 0 /\ m.s.silence_heard >= m.s.silence_awaited
    THEN [t31_set_at_rx_mode(at_put_response_code(m, AT_RESPONSE_CODE_OK),
                             "AT_MODE_OFFHOOK_COMMAND")
             EXCEPT !.s.silence_heard = 0, !.s.silence_awaited = 0]
    ELSE m

cng_rx(m, e) ==
    IF m.s.call_samples > ms_to_samples(m.s.s_reg7 * 1000)
    THEN t31_set_at_rx_mode(
             at_modem_control(
                 restart_modem(at_put_response_code(m, AT_RESPONSE_CODE_NO_CARRIER),
                               T31_SILENCE_TX),
                 "HANGUP", 0),
             "AT_MODE_ONHOOK_COMMAND")
    ELSE fsk_rx(m, e.v21)

\* The early handlers running the V.21 receiver in every call and looking at
\* its message first
early_rx_v21_first(m, e, alone) ==
    LET a == fast_rx(m, e.fast)
        b == fsk_rx(a, e.v21)
    IN IF b.s.rx_message_received
       THEN [b EXCEPT !.s.rx_handler = "fsk_rx"]
       ELSE IF b.s.rx_trained
            THEN [b EXCEPT !.s.rx_handler = alone]
            ELSE b

\* early_v17_rx, early_v27ter_rx, early_v29_rx: alone is the fast receiver
early_rx(m, e, alone) ==
    LET a == fast_rx(m, e.fast)
    IN IF a.s.rx_trained
       THEN [a EXCEPT !.s.rx_handler = alone]
       ELSE LET b == fsk_rx(a, e.v21)
            IN IF b.s.rx_message_received
               THEN [b EXCEPT !.s.rx_handler = "fsk_rx"]
               ELSE b

rx_handler(m, e) ==
    LET h == m.s.rx_handler
    IN CASE h = "silence_rx" -> silence_rx(m)
         [] h = "cng_rx" -> cng_rx(m, e)
         [] h = "fsk_rx" -> fsk_rx(m, e.v21)
         [] h = "early_v17_rx" -> early_rx(m, e, "v17_rx")
         [] h = "early_v27ter_rx" -> early_rx(m, e, "v27ter_rx")
         [] h = "early_v29_rx" -> early_rx(m, e, "v29_rx")
         [] h \in {"v17_rx", "v27ter_rx", "v29_rx"} -> fast_rx(m, e.fast)
         [] OTHER -> m      \* dummy_rx

\* The silence monitor over a block of len samples, all above the threshold
\* power (loud) or all at or below it
silence_monitor(m, len, loud) ==
    [m EXCEPT !.s.silence_heard =
                  IF loud
                  THEN 0
                  ELSE IF @ > ms_to_samples(255 * 10)
                       THEN @
                       ELSE Min(@ + len, ms_to_samples(255 * 10) + 1)]

t31_rx(m, len, loud, e) ==
    LET a == silence_monitor(m, len, loud)
        b == [a EXCEPT !.s.call_samples = @ + len]
        c == IF b.s.dte_data_timeout # 0 /\ b.s.call_samples > b.s.dte_data_timeout
             THEN restart_modem(
                      at_put_response_code(
                          t31_set_at_rx_mode(b, "AT_MODE_OFFHOOK_COMMAND"),
                          AT_RESPONSE_CODE_ERROR),
                      T31_SILENCE_TX)
             ELSE b
    IN IF ~c.s.transmit \/ c.s.modem = T31_CNG_TONE
       THEN rx_handler(c, e)
       ELSE c

-----------------------------------------------------------------------------
(* t31_tx.  What the transmit handlers do in one block is the event e:       *)
(* "fill" (the block is filled), "get_bit" (filled, the fast modulator       *)
(* having called non_ecm_get_bit for one octet's bits, or until it was told  *)
(* END_OF_DATA), "underflow" (filled, the HDLC                               *)
(* transmitter having called hdlc_tx_underflow), "next" (the handler ran     *)
(* short and the queued one filled the block), "dry" (both ran short).       *)

FastTx == {"v17_tx", "v27ter_tx", "v29_tx"}

set_next_tx_type(m) ==
    IF m.s.next_tx_handler # "NULL"
    THEN [m EXCEPT !.s.tx_handler = m.s.next_tx_handler,
                   !.s.next_tx_handler = "NULL"]
    ELSE [m EXCEPT !.s.tx_handler = "silence_gen",
                   !.s.next_tx_handler = "NULL"]

\* The switch on s->modem leaving the role as it is when it has answered
tx_end_again(m) ==
    CASE m.s.modem = T31_SILENCE_TX ->
            LET a == at_put_response_code(m, AT_RESPONSE_CODE_OK)
            IN IF a.s.do_hangup
               THEN [t31_set_at_rx_mode(at_modem_control(a, "HANGUP", 0),
                                        "AT_MODE_ONHOOK_COMMAND")
                        EXCEPT !.s.do_hangup = FALSE]
               ELSE t31_set_at_rx_mode(a, "AT_MODE_OFFHOOK_COMMAND")
      [] m.s.modem = T31_CED_TONE ->
            t31_set_at_rx_mode(restart_modem([m EXCEPT !.s.modem = -1], T31_V21_TX),
                               "AT_MODE_HDLC")
      [] m.s.modem \in {T31_V21_TX, T31_V17_TX, T31_V27TER_TX, T31_V29_TX} ->
            restart_modem(
                t31_set_at_rx_mode(
                    at_put_response_code([m EXCEPT !.s.modem = -1], AT_RESPONSE_CODE_OK),
                    "AT_MODE_OFFHOOK_COMMAND"),
                T31_SILENCE_TX)
      [] OTHER -> m

\* The switch on s->modem when the transmitter has run dry
tx_end(m) ==
    CASE m.s.modem = T31_SILENCE_TX ->
            LET a == at_put_response_code([m EXCEPT !.s.modem = -1], AT_RESPONSE_CODE_OK)
            IN IF a.s.do_hangup
               THEN [t31_set_at_rx_mode(at_modem_control(a, "HANGUP", 0),
                                        "AT_MODE_ONHOOK_COMMAND")
                        EXCEPT !.s.do_hangup = FALSE]
               ELSE t31_set_at_rx_mode(a, "AT_MODE_OFFHOOK_COMMAND")
      [] m.s.modem = T31_CED_TONE ->
            t31_set_at_rx_mode(restart_modem([m EXCEPT !.s.modem = -1], T31_V21_TX),
                               "AT_MODE_HDLC")
      [] m.s.modem \in {T31_V21_TX, T31_V17_TX, T31_V27TER_TX, T31_V29_TX} ->
            restart_modem(
                t31_set_at_rx_mode(
                    at_put_response_code([m EXCEPT !.s.modem = -1], AT_RESPONSE_CODE_OK),
                    "AT_MODE_OFFHOOK_COMMAND"),
                T31_SILENCE_TX)
      [] OTHER -> m

\* The modulator draws up to n bits, and stops at PUTBIT_END_OF_DATA
RECURSIVE get_bits(_, _)
get_bits(m, n) ==
    IF n = 0
    THEN m
    ELSE LET a == non_ecm_get_bit(m)
         IN IF a.ret = PUTBIT_END_OF_DATA
            THEN a
            ELSE get_bits([a EXCEPT !.bits = Append(@, a.ret)], n - 1)

t31_tx(m, max_len, e) ==
    LET a == IF m.s.transmit
             THEN CASE e = "get_bit" -> [get_bits(m, 8) EXCEPT !.ret = max_len]
                    [] e = "underflow" -> [hdlc_tx_underflow(m) EXCEPT !.ret = max_len]
                    [] e = "next" -> [set_next_tx_type(m) EXCEPT !.ret = max_len]
                    [] e = "dry" -> [tx_end(set_next_tx_type(m)) EXCEPT !.ret = 0]
                    [] OTHER -> [m EXCEPT !.ret = max_len]
             ELSE [m EXCEPT !.ret = 0]
    IN IF a.s.transmit_on_idle THEN [a EXCEPT !.ret = max_len] ELSE a

-----------------------------------------------------------------------------
(* T.38 receive handlers *)

RECURSIVE bit_reverse8(_, _)
bit_reverse8(b, n) ==
    IF n = 0 THEN 0 ELSE ((b % 2) * (2 ^ (n - 1))) + bit_reverse8(b \div 2, n - 1)

bit_reverse(buf) == [i \in 1..Len(buf) |-> bit_reverse8(buf[i], 8)]

TrainingIndicators ==
    {"T38_IND_V21_PREAMBLE",
     "T38_IND_V27TER_2400_TRAINING", "T38_IND_V27TER_4800_TRAINING",
     "T38_IND_V29_7200_TRAINING", "T38_IND_V29_9600_TRAINING",
     "T38_IND_V17_7200_SHORT_TRAINING", "T38_IND_V17_7200_LONG_TRAINING",
     "T38_IND_V17_9600_SHORT_TRAINING", "T38_IND_V17_9600_LONG_TRAINING",
     "T38_IND_V17_12000_SHORT_TRAINING", "T38_IND_V17_12000_LONG_TRAINING",
     "T38_IND_V17_14400_SHORT_TRAINING", "T38_IND_V17_14400_LONG_TRAINING",
     "T38_IND_V33_12000_TRAINING", "T38_IND_V33_14400_TRAINING"}

\* process_rx_missing taking no note of the gap
process_rx_missing_none(m) == m

process_rx_missing(m) == [m EXCEPT !.s.missing_data = TRUE]

\* process_rx_indicator taking each indicator as new and moving the deadline
\* on from where it stands
process_rx_indicator_extend(m, indicator) ==
    LET a == CASE indicator = "T38_IND_NO_SIGNAL" ->
                   [m EXCEPT !.s.timeout_rx_samples = 0]
                [] indicator \in TrainingIndicators ->
                   [m EXCEPT !.s.timeout_rx_samples = @ + ms_to_samples(MID_RX_TIMEOUT)]
                [] OTHER -> m
    IN [a EXCEPT !.s.hdlc_rx_len = 0, !.s.missing_data = FALSE]

\* process_rx_indicator without its test for a repeated indicator
process_rx_indicator_repeat(m, indicator) ==
    LET a == CASE indicator = "T38_IND_NO_SIGNAL" ->
                   [m EXCEPT !.s.timeout_rx_samples = 0]
                [] indicator \in TrainingIndicators ->
                   [m EXCEPT !.s.timeout_rx_samples =
                                 m.s.samples + ms_to_samples(MID_RX_TIMEOUT)]
                [] OTHER -> m
    IN [a EXCEPT !.s.hdlc_rx_len = 0, !.s.missing_data = FALSE]

process_rx_indicator(m, indicator) ==
    IF m.s.current_rx_indicator = indicator
    THEN m
    ELSE LET a == CASE indicator = "T38_IND_NO_SIGNAL" ->
                        [m EXCEPT !.s.timeout_rx_samples = 0]
                     [] indicator \in TrainingIndicators ->
                        [m EXCEPT !.s.timeout_rx_samples =
                                      m.s.samples + ms_to_samples(MID_RX_TIMEOUT)]
                     [] OTHER -> m
         IN [a EXCEPT !.s.hdlc_rx_len = 0, !.s.missing_data = FALSE]

\* The carrier-down / frame deliveries process_rx_data makes while the
\* receive type is V.21
rx_data_reset(m) == [m EXCEPT !.s.hdlc_rx_len = 0, !.s.missing_data = FALSE]

\* process_rx_data appending an HDLC_DATA field without looking at the room
process_rx_data_append(m, data_type, field_type, buf) ==
    LET len == Len(buf)
        rearm == m.s.samples + ms_to_samples(MID_RX_TIMEOUT)
    IN
    CASE field_type = "T38_FIELD_HDLC_DATA" ->
            LET a == IF m.s.timeout_rx_samples = 0
                     THEN [m EXCEPT !.s.timeout_rx_samples = rearm,
                                    !.s.missing_data = IF buf[1] # 255 THEN TRUE ELSE @]
                     ELSE m
            IN [a EXCEPT !.s.hdlc_rx_len = @ + len,
                         !.s.timeout_rx_samples = rearm,
                         !.fields = Append(@, len)]
      [] field_type \in {"T38_FIELD_HDLC_FCS_OK", "T38_FIELD_HDLC_FCS_BAD",
                         "T38_FIELD_HDLC_FCS_BAD_SIG_END", "T38_FIELD_HDLC_SIG_END"} ->
            rx_data_reset(m)
      [] field_type = "T38_FIELD_HDLC_FCS_OK_SIG_END" ->
            rx_data_reset([m EXCEPT !.s.tx_out_bytes = 0])
      [] OTHER -> m

\* process_rx_data delivering at HDLC_FCS_OK whatever frame is in hdlc_rx_buf
process_rx_data_deliver(m, data_type, field_type, buf) ==
    LET len == Len(buf)
        rearm == m.s.samples + ms_to_samples(MID_RX_TIMEOUT)
        v21 == m.s.current_rx_type = T31_V21_RX
        frame == [i \in 1..(m.s.hdlc_rx_len + 2) |-> 0]
    IN
    CASE field_type = "T38_FIELD_HDLC_DATA" ->
            LET a == IF m.s.timeout_rx_samples = 0
                     THEN [m EXCEPT !.s.timeout_rx_samples = rearm,
                                    !.s.missing_data = IF buf[1] # 255 THEN TRUE ELSE @]
                     ELSE m
                b == IF a.s.hdlc_rx_len + len <= 256 - 2
                     THEN [a EXCEPT !.s.hdlc_rx_len = @ + len]
                     ELSE a
            IN [b EXCEPT !.s.timeout_rx_samples = rearm, !.fields = Append(@, len)]
      [] field_type = "T38_FIELD_HDLC_FCS_OK" ->
            rx_data_reset(IF m.s.hdlc_rx_len > 0 /\ ~m.s.missing_data
                          THEN hdlc_accept(m, frame, m.s.hdlc_rx_len, TRUE)
                          ELSE m)
      [] field_type = "T38_FIELD_HDLC_FCS_BAD" -> rx_data_reset(m)
      [] field_type = "T38_FIELD_HDLC_FCS_OK_SIG_END" ->
            LET a == IF v21
                     THEN hdlc_accept(IF m.s.tx_out_bytes > 0
                                      THEN hdlc_accept(m, frame, m.s.hdlc_rx_len, TRUE)
                                      ELSE m,
                                      <<>>, PUTBIT_CARRIER_DOWN, TRUE)
                     ELSE m
            IN rx_data_reset([a EXCEPT !.s.tx_out_bytes = 0])
      [] field_type \in {"T38_FIELD_HDLC_FCS_BAD_SIG_END", "T38_FIELD_HDLC_SIG_END"} ->
            rx_data_reset(IF v21 THEN hdlc_accept(m, <<>>, PUTBIT_CARRIER_DOWN, TRUE) ELSE m)
      [] field_type = "T38_FIELD_T4_NON_ECM_DATA" ->
            [m EXCEPT !.s.rx_signal_present = TRUE,
                      !.s.timeout_rx_samples = rearm]
      [] field_type = "T38_FIELD_T4_NON_ECM_SIG_END" ->
            [m EXCEPT !.s.rx_signal_present = FALSE,
                      !.s.timeout_rx_samples = 0]
      [] OTHER -> m

process_rx_data(m, data_type, field_type, buf) ==
    LET len == Len(buf)
        rearm == m.s.samples + ms_to_samples(MID_RX_TIMEOUT)
        v21 == m.s.current_rx_type = T31_V21_RX
        \* the frame in hdlc_rx_buf; the two octets after it stand for the FCS
        frame == [i \in 1..(m.s.hdlc_rx_len + 2) |-> 0]
    IN
    CASE field_type = "T38_FIELD_HDLC_DATA" ->
            LET a == IF m.s.timeout_rx_samples = 0
                     THEN [m EXCEPT !.s.timeout_rx_samples = rearm,
                                    !.s.missing_data = IF buf[1] # 255 THEN TRUE ELSE @]
                     ELSE m
                b == IF a.s.hdlc_rx_len + len <= 256 - 2
                     THEN [a EXCEPT !.s.hdlc_rx_len = @ + len]
                     ELSE a
            IN [b EXCEPT !.s.timeout_rx_samples = rearm, !.fields = Append(@, len)]
      [] field_type = "T38_FIELD_HDLC_FCS_OK" ->
            rx_data_reset(IF v21 /\ m.s.tx_out_bytes > 0 /\ ~m.s.missing_data
                          THEN hdlc_accept(m, frame, m.s.hdlc_rx_len, TRUE)
                          ELSE m)
      [] field_type = "T38_FIELD_HDLC_FCS_BAD" -> rx_data_reset(m)
      [] field_type = "T38_FIELD_HDLC_FCS_OK_SIG_END" ->
            LET a == IF v21
                     THEN hdlc_accept(IF m.s.tx_out_bytes > 0
                                      THEN hdlc_accept(m, frame, m.s.hdlc_rx_len, TRUE)
                                      ELSE m,
                                      <<>>, PUTBIT_CARRIER_DOWN, TRUE)
                     ELSE m
            IN rx_data_reset([a EXCEPT !.s.tx_out_bytes = 0])
      [] field_type \in {"T38_FIELD_HDLC_FCS_BAD_SIG_END", "T38_FIELD_HDLC_SIG_END"} ->
            rx_data_reset(IF v21 THEN hdlc_accept(m, <<>>, PUTBIT_CARRIER_DOWN, TRUE) ELSE m)
      [] field_type = "T38_FIELD_T4_NON_ECM_DATA" ->
            [m EXCEPT !.s.rx_signal_present = TRUE,
                      !.s.timeout_rx_samples = rearm]
      [] field_type = "T38_FIELD_T4_NON_ECM_SIG_END" ->
            [m EXCEPT !.s.rx_signal_present = FALSE,
                      !.s.timeout_rx_samples = 0]
      [] OTHER -> m

\* t38_core hands a received indicator or data field to the handlers above
\* and then records it as the current one
t38_rx_indicator(m, indicator) ==
    [process_rx_indicator(m, indicator) EXCEPT !.s.current_rx_indicator = indicator]

t38_rx_data(m, data_type, field_type, buf) ==
    [process_rx_data(m, data_type, field_type, buf)
        EXCEPT !.s.current_rx_data_type = data_type,
               !.s.current_rx_field_type = field_type]

-----------------------------------------------------------------------------
(* t31_t38_send_timeout *)

T30_MODEM_DONE == 13

\* <<without_tep, with_tep, without_tep_with_flags, with_tep_with_flags>>
training_time(ind) ==
    CASE ind = "T38_IND_V21_PREAMBLE" -> <<0, 0, 1000, 1000>>
      [] ind = "T38_IND_V27TER_2400_TRAINING" -> <<943, 1158, 1143, 1158>>
      [] ind = "T38_IND_V27TER_4800_TRAINING" -> <<708, 923, 908, 1123>>
      [] ind \in {"T38_IND_V29_7200_TRAINING", "T38_IND_V29_9600_TRAINING"} ->
            <<234, 454, 434, 654>>
      [] ind \in {"T38_IND_V17_7200_SHORT_TRAINING", "T38_IND_V17_9600_SHORT_TRAINING",
                  "T38_IND_V17_14400_SHORT_TRAINING"} -> <<142, 367, 342, 567>>
      [] ind = "T38_IND_V17_12000_SHORT_TRAINING" -> <<142, 367, 342, 367>>
      [] ind \in {"T38_IND_V17_7200_LONG_TRAINING", "T38_IND_V17_9600_LONG_TRAINING",
                  "T38_IND_V17_12000_LONG_TRAINING", "T38_IND_V17_14400_LONG_TRAINING"} ->
            <<1393, 1618, 1593, 1818>>
      [] OTHER -> <<0, 0, 0, 0>>

\* len octets of the local buf[], which the function never fills: each octet
\* is whatever the stack holds, g here
stack_buf(len, g) == [i \in 1..len |-> g]

zero_buf(len) == [i \in 1..len |-> 0]

\* The switch on s->timed_step; g is the content of the uninitialised buf[]
timed_step_switch(m, g) ==
    LET st == m.s.timed_step
        opdp == m.s.octets_per_data_packet
        chunk == ms_to_samples(m.s.ms_per_tx_chunk)
        tt == training_time(m.s.next_tx_indicator)
    IN
    CASE st = "T38_TIMED_STEP_NON_ECM_MODEM" ->
            LET a == IF m.s.current_tx_indicator # "T38_IND_NO_SIGNAL"
                     THEN t38_core_send_indicator(m, "T38_IND_NO_SIGNAL", m.s.indicator_tx_count)
                     ELSE m
            IN [a EXCEPT !.s.timed_step = "T38_TIMED_STEP_NON_ECM_MODEM_2",
                         !.s.next_tx_samples = @ + ms_to_samples(75)]
      [] st = "T38_TIMED_STEP_NON_ECM_MODEM_2" ->
            [t38_core_send_indicator(m, m.s.next_tx_indicator, m.s.indicator_tx_count)
                EXCEPT !.s.timed_step = "T38_TIMED_STEP_NON_ECM_MODEM_3",
                       !.s.next_tx_samples =
                           @ + ms_to_samples(IF m.s.use_tep THEN tt[2] ELSE tt[1])]
      [] st = "T38_TIMED_STEP_NON_ECM_MODEM_3" ->
            \* len = s->octets_per_data_packet: no data is fetched, so the
            \* chunk is never short and the step never moves to _4
            LET len == opdp
                a == IF len < opdp
                     THEN [m EXCEPT !.s.trailer_bytes = (3 * opdp) + len,
                                    !.s.timed_step = "T38_TIMED_STEP_NON_ECM_MODEM_4"]
                     ELSE m
            IN [t38_core_send_data(a, "T38_FIELD_T4_NON_ECM_DATA",
                                   stack_buf(opdp, g), DATA_TX_COUNT)
                   EXCEPT !.s.next_tx_samples = @ + chunk]
      [] st = "T38_TIMED_STEP_NON_ECM_MODEM_4" ->
            LET tb == m.s.trailer_bytes - opdp
                a == [m EXCEPT !.s.trailer_bytes = tb]
            IN IF tb <= 0
               THEN [t38_core_send_data(a, "T38_FIELD_T4_NON_ECM_SIG_END",
                                        zero_buf(opdp + tb), m.s.data_end_tx_count)
                        EXCEPT !.s.timed_step = "T38_TIMED_STEP_NON_ECM_MODEM_5",
                               !.s.next_tx_samples = @ + ms_to_samples(60)]
               ELSE [t38_core_send_data(a, "T38_FIELD_T4_NON_ECM_DATA",
                                        zero_buf(opdp), DATA_TX_COUNT)
                        EXCEPT !.s.next_tx_samples = @ + chunk]
      [] st = "T38_TIMED_STEP_NON_ECM_MODEM_5" ->
            [t38_core_send_indicator(m, "T38_IND_NO_SIGNAL", m.s.indicator_tx_count)
                EXCEPT !.s.timed_step = "T38_TIMED_STEP_NONE"]
      [] st = "T38_TIMED_STEP_HDLC_MODEM" ->
            [t38_core_send_indicator(m, m.s.next_tx_indicator, m.s.indicator_tx_count)
                EXCEPT !.s.next_tx_samples =
                           @ + ms_to_samples(IF m.s.use_tep THEN tt[4] ELSE tt[3]),
                       !.s.timed_step = "T38_TIMED_STEP_HDLC_MODEM_2"]
      [] st = "T38_TIMED_STEP_HDLC_MODEM_2" ->
            LET i == m.s.hdlc_tx_len - m.s.hdlc_tx_ptr
                part(n) == [k \in 1..n |-> At(m.s.hdlc_tx_buf, m.s.hdlc_tx_ptr + k - 1)]
            IN IF opdp >= i
               THEN IF m.s.merge_tx_fields
                    THEN \* hdlc_tx_len is 0 when it is tested for < 0
                         [t38_core_send_data(m, "T38_FIELD_HDLC_DATA+T38_FIELD_HDLC_FCS_OK",
                                             part(i), DATA_TX_COUNT)
                             EXCEPT !.s.hdlc_tx_ptr = 0,
                                    !.s.hdlc_tx_len = 0,
                                    !.s.timed_step = "T38_TIMED_STEP_HDLC_MODEM_2",
                                    !.s.next_tx_samples = @ + chunk]
                    ELSE [t38_core_send_data(m, "T38_FIELD_HDLC_DATA", part(i), DATA_TX_COUNT)
                             EXCEPT !.s.timed_step = "T38_TIMED_STEP_HDLC_MODEM_3",
                                    !.s.next_tx_samples = @ + chunk]
               ELSE [t38_core_send_data(m, "T38_FIELD_HDLC_DATA", part(opdp), DATA_TX_COUNT)
                        EXCEPT !.s.hdlc_tx_ptr = @ + opdp,
                               !.s.next_tx_samples = @ + chunk]
      [] st = "T38_TIMED_STEP_HDLC_MODEM_3" ->
            \* hdlc_tx_len is 0 when it is tested: FCS_OK, and the step stays
            [t38_core_send_data(m, "T38_FIELD_HDLC_FCS_OK", <<>>, DATA_TX_COUNT)
                EXCEPT !.s.hdlc_tx_ptr = 0,
                       !.s.hdlc_tx_len = 0,
                       !.s.next_tx_samples = @ + chunk]
      [] st = "T38_TIMED_STEP_HDLC_MODEM_4" ->
            [t38_core_send_indicator(m, "T38_IND_NO_SIGNAL", m.s.indicator_tx_count)
                EXCEPT !.s.hdlc_tx_len = 0]
      [] st = "T38_TIMED_STEP_CED" ->
            [t38_core_send_indicator(m, "T38_IND_NO_SIGNAL", m.s.indicator_tx_count)
                EXCEPT !.s.timed_step = "T38_TIMED_STEP_CED_2",
                       !.s.next_tx_samples = m.s.samples + ms_to_samples(200)]
      [] st = "T38_TIMED_STEP_CED_2" ->
            [t38_core_send_indicator(m, "T38_IND_CED", m.s.indicator_tx_count)
                EXCEPT !.s.timed_step = "T38_TIMED_STEP_PAUSE",
                       !.s.next_tx_samples = m.s.samples + ms_to_samples(3000)]
      [] st = "T38_TIMED_STEP_CNG" ->
            [t38_core_send_indicator(m, "T38_IND_NO_SIGNAL", m.s.indicator_tx_count)
                EXCEPT !.s.timed_step = "T38_TIMED_STEP_CNG_2",
                       !.s.next_tx_samples = m.s.samples + ms_to_samples(200)]
      [] st = "T38_TIMED_STEP_CNG_2" ->
            [t38_core_send_indicator(m, "T38_IND_CNG", m.s.indicator_tx_count)
                EXCEPT !.s.timed_step = "T38_TIMED_STEP_NONE"]
      [] st = "T38_TIMED_STEP_PAUSE" ->
            [m EXCEPT !.s.timed_step = "T38_TIMED_STEP_NONE"]
      [] OTHER -> m

\* t31_t38_send_timeout running the switch without the test of next_tx_samples
t31_t38_send_timeout_no_deadline(m, samples, g) ==
    IF m.s.current_rx_type = T30_MODEM_DONE \/ m.s.current_tx_type = T30_MODEM_DONE
    THEN [m EXCEPT !.ret = 1]
    ELSE LET a == [m EXCEPT !.s.samples = @ + samples, !.ret = 0]
             b == IF a.s.timeout_rx_samples # 0 /\ a.s.samples > a.s.timeout_rx_samples
                  THEN [a EXCEPT !.s.timeout_rx_samples = 0]
                  ELSE a
         IN IF b.s.timed_step = "T38_TIMED_STEP_NONE"
            THEN b
            ELSE timed_step_switch(b, g)

t31_t38_send_timeout(m, samples, g) ==
    IF m.s.current_rx_type = T30_MODEM_DONE \/ m.s.current_tx_type = T30_MODEM_DONE
    THEN [m EXCEPT !.ret = 1]
    ELSE LET a == [m EXCEPT !.s.samples = @ + samples, !.ret = 0]
             b == IF a.s.timeout_rx_samples # 0 /\ a.s.samples > a.s.timeout_rx_samples
                  THEN [a EXCEPT !.s.timeout_rx_samples = 0]
                  ELSE a
         IN IF b.s.timed_step = "T38_TIMED_STEP_NONE" \/ b.s.samples < b.s.next_tx_samples
            THEN b
            ELSE timed_step_switch(b, g)

-----------------------------------------------------------------------------
(* The entry points as actions *)

\* What the properties need to know about the step just taken
Observe(m, name) ==
    [restarted |-> m.restarted,
     modem_changed |-> m.s.modem # s.modem,
     wr |-> m.wr,
     hwr |-> m.hwr,
     framed |-> m.framed,
     accepted |-> m.accepted,
     \* the octets of the HDLC_DATA fields received since hdlc_rx_len was last
     \* set to 0, counted as far as 255
     rx_total |-> IF m.fields # <<>>
                  THEN Min(obs.rx_total + m.fields[1], 256 - 1)
                  ELSE IF m.s.hdlc_rx_len = 0 THEN 0 ELSE obs.rx_total,
     ret |-> m.ret,
     \* the CTS line as the host last saw it set
     cts |-> IF \E i \in 1..Len(m.ctl) : m.ctl[i][1] = "CTS"
             THEN LET last == CHOOSE i \in 1..Len(m.ctl) :
                                  /\ m.ctl[i][1] = "CTS"
                                  /\ \A j \in (i + 1)..Len(m.ctl) : m.ctl[j][1] # "CTS"
                  IN m.ctl[last][2] = 1
             ELSE obs.cts,
     \* the DTE has cancelled reception and given no receive command since
     cancelled |-> IF name = "t31_at_rx"
                   THEN obs.cancelled
                        \/ (s.at_rx_mode = "AT_MODE_DELIVERY" /\ m.ret > 0)
                   ELSE IF name = "process_class1_cmd"
                        THEN obs.cancelled /\ m.ret < 0
                        ELSE obs.cancelled]

Commit(m, name, arg) ==
    /\ s' = m.s
    /\ dte' = m.dte
    /\ ctl' = m.ctl
    /\ pkt' = m.pkt
    /\ op' = [name |-> name, arg |-> arg]
    /\ obs' = Observe(m, name)

InitWith(st) ==
    /\ s = st
    /\ dte = <<>>
    /\ ctl = <<>>
    /\ pkt = <<>>
    /\ op = [name |-> "t31_init", arg |-> <<>>]
    /\ obs = [restarted |-> FALSE, modem_changed |-> FALSE, wr |-> -1, hwr |-> -1, framed |-> <<>>, accepted |-> <<>>, rx_total |-> 0, ret |-> 0,
              cts |-> TRUE, cancelled |-> FALSE]

\* t31_at_rx(s, t, len), the indices followed up to MaxOverrun past the end
AtRx(T) ==
    \E t \in T :
        LET m == t31_at_rx(Enter(s), t)
        IN /\ m.s.tx_in_bytes <= TxBufLen + MaxOverrun
           /\ m.s.hdlc_tx_len <= HdlcTxBufLen + MaxOverrun
           /\ m.hwr < HdlcTxBufLen + MaxOverrun
           /\ Commit(m, "t31_at_rx", t)

\* process_class1_cmd, which the AT interpreter calls for +FTS/+FRS ("S"),
\* +FTH/+FRH ("H") and +FTM/+FRM ("M") while the DTE is in command mode
Class1(Cmds) ==
    \E c \in Cmds :
        /\ CommandMode(s)
        /\ Commit(process_class1_cmd(Enter(s), c[1], c[2], c[3]),
                  "process_class1_cmd", c)

ModemControl(Ops) ==
    \E c \in Ops :
        Commit(t31_modem_control_handler(Enter(s), c[1], c[2]),
               "t31_modem_control_handler", c[1])

\* The events the demodulators can report to the installed rx_handler
FastEvents(st, Octets) ==
    {NoEvent}
    \cup {Special(v) : v \in {PUTBIT_TRAINING_FAILED, PUTBIT_TRAINING_SUCCEEDED,
                              PUTBIT_CARRIER_UP, PUTBIT_CARRIER_DOWN}}
    \cup (IF st.rx_trained THEN {Octet(b) : b \in Octets} ELSE {})

V21Events(Frames) ==
    {NoEvent}
    \cup {Special(v) : v \in {PUTBIT_CARRIER_UP, PUTBIT_CARRIER_DOWN,
                              PUTBIT_FRAMING_OK, PUTBIT_ABORT}}
    \cup Frames

RxEvents(st, Octets, Frames) ==
    LET h == st.rx_handler
        none == {NoEvent}
        F == IF h \in {"early_v17_rx", "early_v27ter_rx", "early_v29_rx",
                       "v17_rx", "v27ter_rx", "v29_rx"}
             THEN FastEvents(st, Octets) ELSE none
        V == IF h \in {"cng_rx", "fsk_rx"}
             THEN V21Events(Frames)
             ELSE IF h \in {"early_v17_rx", "early_v27ter_rx", "early_v29_rx"}
                  THEN V21Events(Frames) ELSE none
    IN {[fast |-> f, v21 |-> v] : f \in F, v \in V}

\* t31_rx(s, amp, len)
Rx(Lens, Louds, Octets, Frames) ==
    \E len \in Lens, loud \in Louds, e \in RxEvents(s, Octets, Frames) :
        /\ s.call_samples + len <= MaxCallSamples
        /\ Commit(t31_rx(Enter(s), len, loud, e), "t31_rx", e)

\* t31_tx(s, amp, max_len)
Tx(Events) ==
    \E e \in Events :
        /\ e = "get_bit" => s.transmit /\ s.tx_handler \in FastTx
        /\ e = "underflow" => s.transmit /\ s.tx_handler = "fsk_tx"
        /\ e = "next" => s.transmit /\ s.next_tx_handler # "NULL"
        /\ e = "dry" => s.transmit
        /\ Commit(t31_tx(Enter(s), 160, e), "t31_tx", e)

\* t31_t38_send_timeout(s, samples), samples followed up to Limit
T38SendTimeoutUpTo(Samples, Garbage, Limit) ==
    \E n \in Samples, g \in Garbage :
        /\ s.t38_handler
        /\ s.samples + n <= Limit
        /\ Commit(t31_t38_send_timeout(Enter(s), n, g), "t31_t38_send_timeout", <<>>)

T38SendTimeout(Samples, Garbage) == T38SendTimeoutUpTo(Samples, Garbage, MaxCallSamples)

\* The T.38 core's calls of process_rx_indicator, process_rx_data and
\* process_rx_missing for a received packet
T38RxIndicator(Inds) ==
    \E i \in Inds :
        /\ s.t38_handler
        /\ Commit(t38_rx_indicator(Enter(s), i), "process_rx_indicator", i)

T38RxData(Fields, Bufs) ==
    \E f \in Fields, b \in Bufs :
        /\ s.t38_handler
        /\ Commit(t38_rx_data(Enter(s), "T38_DATA_V21", f, b), "process_rx_data", f)

T38RxMissing ==
    /\ s.t38_handler
    /\ Commit(process_rx_missing(Enter(s)), "process_rx_missing", <<>>)

-----------------------------------------------------------------------------
(* Non-ECM transmission on the audio path: the DTE has given +FTM=96 and     *)
(* feeds stuffed data while the V.29 modulator draws bits.                   *)

InitTxBuf ==
    InitWith(process_class1_cmd(Enter(t31_init(TRUE, FALSE, 10)), TRUE, "M", 96).s)

TxBufText == {<<65>>, <<65, 65>>, <<DLE, ETX>>}
TxBuf_at_rx == AtRx(TxBufText)
TxBuf_get_bit == Tx({"get_bit"})
TxBuf_dry == Tx({"dry"})
TxBuf_class1 == Class1({<<TRUE, "M", 96>>})
TxBufOps == {<<"RESTART", T31_SILENCE_TX>>, <<"RESTART", T31_V29_TX>>}
TxBuf_restart == ModemControl(TxBufOps)
TxBuf_rx_data == T38RxData({"T38_FIELD_HDLC_FCS_OK_SIG_END"}, {<<>>})

NextTxBuf ==
    \/ TxBuf_at_rx
    \/ TxBuf_get_bit
    \/ TxBuf_dry
    \/ TxBuf_class1
    \/ TxBuf_restart
    \/ TxBuf_rx_data

SpecTxBuf == InitTxBuf /\ [][NextTxBuf]_vars

\* C1: after every operation 0 <= tx_out_bytes <= tx_in_bytes <= T31_TX_BUF_LEN,
\* and no store to tx_data lands at an index >= T31_TX_BUF_LEN.
C1_TxDataBounds ==
    /\ 0 <= s.tx_out_bytes
    /\ s.tx_out_bytes <= s.tx_in_bytes
    /\ s.tx_in_bytes <= TxBufLen
    /\ obs.wr < TxBufLen

\* The bits of an octet, least significant first
LsbFirst(b) == [i \in 1..8 |-> (b \div (2 ^ (i - 1))) % 2]

\* The bits the modulator gets in a t31_tx call made in state st
BitsDrawn(st) == get_bits(Enter(st), 8).bits

\* C35: once the DTE has ended its data (data_final), each t31_tx call in
\* which the modulator draws an octet takes the next buffered octet, hands
\* out its bits least significant first and moves tx_out_bytes on by one, and
\* the call that finds tx_out_bytes at tx_in_bytes gets PUTBIT_END_OF_DATA and
\* no bits; so tx_in_bytes - tx_out_bytes calls emit every buffered octet once
\* and the next one ends the data, also when tx_data is completely full.
C35_NonEcmTxEnds ==
    [][(/\ op'.name = "t31_tx"
        /\ op'.arg = "get_bit"
        /\ s.data_final
        /\ s.bit_no <= 0)
          => IF s.tx_out_bytes # s.tx_in_bytes
             THEN /\ BitsDrawn(s) = LsbFirst(At(s.tx_data, s.tx_out_bytes))
                  /\ s'.tx_out_bytes = s.tx_out_bytes + 1
                  /\ s'.tx_out_bytes <= s.tx_in_bytes
                  /\ s'.data_final
             ELSE /\ BitsDrawn(s) = <<>>
                  /\ ~s'.data_final]_vars

\* C4: a t31_at_rx call in STUFFED mode that returns with tx_in_bytes above
\* the high-water mark leaves tx_holding TRUE and CTS deasserted; and while
\* holding, the t31_tx call in which non_ecm_get_bit first takes tx_out_bytes
\* above the low-water mark clears tx_holding and asserts CTS.
C4_FlowControl ==
    [][/\ (/\ op'.name = "t31_at_rx"
           /\ s.at_rx_mode = "AT_MODE_STUFFED"
           /\ s'.tx_in_bytes > TxBufLen - TxTide)
          => (s'.tx_holding /\ ~obs'.cts)
       /\ (/\ op'.name = "t31_tx"
           /\ s.tx_holding
           /\ s.tx_out_bytes <= TxTide
           /\ s'.tx_out_bytes > TxTide)
          => (~s'.tx_holding /\ obs'.cts)]_vars



-----------------------------------------------------------------------------
\* C38: a flow control hold is always released.  While tx_holding is TRUE the
\* CTS line is deasserted and tx_data holds octets still to be sent, whose
\* sending releases the hold; no restart of the modem, timeout or end of
\* transmission leaves tx_holding TRUE with an empty buffer.
C38_HoldReleased ==
    s.tx_holding => (~obs.cts /\ s.tx_out_bytes < s.tx_in_bytes)

-----------------------------------------------------------------------------

(* HDLC transmission: the DTE has given +FTH=3 and feeds stuffed frames.     *)
(* Nothing in t31.c starts the T.38 timed steps or sets the packet size, so  *)
(* the owner of the t31_state_t is taken to have done it or not.             *)

InitHdlcTx ==
    \E step \in {"T38_TIMED_STEP_NONE", "T38_TIMED_STEP_HDLC_MODEM"} :
        InitWith([process_class1_cmd(Enter(t31_init(TRUE, FALSE, 10)), TRUE, "H", 3).s
                      EXCEPT !.timed_step = step,
                             !.next_tx_indicator = "T38_IND_V21_PREAMBLE",
                             !.octets_per_data_packet = 2])

HdlcTxText == {<<255>>, <<255, 19>>, <<DLE, SUB>>, <<DLE, ETX>>}
HdlcTx_at_rx == AtRx(HdlcTxText)
HdlcTx_send_timeout == T38SendTimeout({30000}, {0})

NextHdlcTx ==
    \/ HdlcTx_at_rx
    \/ HdlcTx_send_timeout

SpecHdlcTx == InitHdlcTx /\ [][NextHdlcTx]_vars

\* C2: in HDLC DTE mode, after each operation
\* 0 <= hdlc_tx_ptr <= hdlc_tx_len <= size of hdlc_tx_buf, and
\* dle_unstuff_hdlc has stored no byte beyond the end of hdlc_tx_buf.
C2_HdlcTxBounds ==
    s.at_rx_mode = "AT_MODE_HDLC"
    => /\ 0 <= s.hdlc_tx_ptr
       /\ s.hdlc_tx_ptr <= s.hdlc_tx_len
       /\ s.hdlc_tx_len <= HdlcTxBufLen
       /\ obs.hwr < HdlcTxBufLen

-----------------------------------------------------------------------------
(* The modem role: every entry point of the engine, from t31_init.           *)

InitRole ==
    \E far \in BOOLEAN : InitWith(t31_init(TRUE, far, 10))

RoleCmds == {<<TRUE, "S", 1>>, <<FALSE, "H", 3>>, <<TRUE, "M", 96>>, <<FALSE, "M", 96>>}
Role_class1 == Class1(RoleCmds)
Role_modem_control == ModemControl({<<"RESTART", T31_CNG_TONE>>})
Role_at_rx == AtRx({<<DLE, ETX>>})
Role_rx == Rx({45000}, {TRUE}, {}, {})
RoleEvents == {"fill", "dry"}
Role_tx == Tx(RoleEvents)
Role_send_timeout == T38SendTimeout({90000}, {0})
Role_rx_indicator == T38RxIndicator({"T38_IND_CED"})
Role_rx_data == T38RxData({"T38_FIELD_HDLC_FCS_OK_SIG_END"}, {<<>>})
Role_rx_missing == T38RxMissing

NextRole ==
    \/ Role_class1
    \/ Role_modem_control
    \/ Role_at_rx
    \/ Role_rx
    \/ Role_tx
    \/ Role_send_timeout
    \/ Role_rx_indicator
    \/ Role_rx_data
    \/ Role_rx_missing

SpecRole == InitRole /\ [][NextRole]_vars

\* C22: t38_mode is what t31_init made of the T.38 packet handler, FALSE for
\* a null handler and TRUE for a handler, and stays so in every operation.
C22_T38ModeFixed == s.t38_mode = s.t38_handler

\* C3 as stated: the modem role changes only in a step that runs restart_modem.
C3_OnlyRestartModem ==
    [][s'.modem # s.modem => obs'.restarted]_vars

\* C3 amended: outside restart_modem the role is assigned only by hdlc_accept
\* on PUTBIT_FRAMING_OK (CNG or NOCNG tone to V21_RX; a fast receive role to
\* V21_RX with +FAR=1, to SILENCE_TX with +FAR=0), by t31_at_rx cancelling a
\* reception in DELIVERY mode (to SILENCE_TX), and by t31_tx when the silence
\* of +FTS has been sent (to -1).
C3_RoleAssignments ==
    [][(s'.modem # s.modem /\ ~obs'.restarted)
       => \/ /\ op'.name = "t31_rx"
             /\ s.modem \in {T31_CNG_TONE, T31_NOCNG_TONE}
             /\ s'.modem = T31_V21_RX
          \/ /\ op'.name = "t31_rx"
             /\ s.modem \in {T31_V17_RX, T31_V27TER_RX, T31_V29_RX}
             /\ s'.modem = IF s.adaptive_receive THEN T31_V21_RX ELSE T31_SILENCE_TX
          \/ /\ op'.name = "t31_at_rx"
             /\ s.at_rx_mode = "AT_MODE_DELIVERY"
             /\ s'.modem = T31_SILENCE_TX
          \/ /\ op'.name = "t31_tx"
             /\ s.modem = T31_SILENCE_TX
             /\ s'.modem = -1]_vars

\* A role assigned by hdlc_accept, t31_at_rx or t31_tx without restart_modem
C3_Witness ==
    /\ obs.modem_changed
    /\ ~obs.restarted
    /\ op.name \in {"t31_rx", "t31_at_rx", "t31_tx"}

-----------------------------------------------------------------------------
(* DLE stuffing: the DTE has given +FTM=96 or +FTH=3 and sends, in one       *)
(* t31_at_rx call, a byte string stuffed the way the uplink stuffs, with     *)
(* DLE ETX after it.                                                         *)

\* The sequences over A of n elements at most
RECURSIVE SeqsUpTo(_, _)
SeqsUpTo(A, n) ==
    IF n = 0
    THEN {<<>>}
    ELSE LET S == SeqsUpTo(A, n - 1)
         IN S \cup {Append(x, a) : x \in {y \in S : Len(y) = n - 1}, a \in A}

\* Short strings of every shape, and uniform ones up to the buffer sizes
DleStrings ==
    SeqsUpTo({DLE, 65}, 2)
    \cup {[i \in 1..n |-> b] : n \in 3..Max(TxBufLen, HdlcTxBufLen), b \in {DLE, 65}}
    \cup {<<ETX>>, <<SUB>>, <<ETX, DLE>>, <<DLE, SUB, DLE>>, <<255, 19, DLE, ETX>>}

InitDLE ==
    \E operation \in {"M", "H"} :
        InitWith(process_class1_cmd(Enter(t31_init(FALSE, FALSE, 10)), TRUE, operation,
                                    IF operation = "M" THEN 96 ELSE 3).s)

DLEText == {stuff(x) \o <<DLE, ETX>> : x \in DleStrings}
DLE_at_rx == AtRx(DLEText)

NextDLE == DLE_at_rx

SpecDLE == InitDLE /\ [][NextDLE]_vars

\* The octets of tx_data waiting to be transmitted
tx_payload(st) ==
    [i \in 1..(st.tx_in_bytes - st.tx_out_bytes) |-> At(st.tx_data, st.tx_out_bytes + i - 1)]

\* C5: stuff(x) followed by DLE ETX, given in one t31_at_rx call with dled
\* FALSE, leaves exactly x as the payload of an empty tx_data (STUFFED mode)
\* or hands exactly x to the HDLC transmitter (HDLC mode), for every x that
\* fits the buffer; and the DLE ETX ends the data: in STUFFED mode data_final
\* is set and the DTE is back in command mode, in HDLC mode the frame buffer
\* is empty again.
C5_DleRoundTrip ==
    [][\A x \in DleStrings :
          (/\ op'.name = "t31_at_rx"
           /\ op'.arg = stuff(x) \o <<DLE, ETX>>
           /\ ~s.dled)
          => /\ (/\ s.at_rx_mode = "AT_MODE_STUFFED"
                 /\ s.tx_in_bytes = s.tx_out_bytes
                 /\ Len(x) <= TxBufLen)
                => /\ tx_payload(s') = x
                   /\ s'.data_final
                   /\ s'.at_rx_mode = "AT_MODE_OFFHOOK_COMMAND"
             /\ (/\ s.at_rx_mode = "AT_MODE_HDLC"
                 /\ s.hdlc_tx_len = 0
                 /\ Len(x) <= HdlcTxBufLen)
                => /\ obs'.framed = <<x>>
                   /\ s'.hdlc_tx_len = 0]_vars

-----------------------------------------------------------------------------
(* V.21 HDLC reception on the audio path: +FRH=3 commands, the CNG tone of   *)
(* a calling modem, what the V.21 receiver reports, and DTE data.            *)

\* A frame with a DLE in it, a one octet frame whose first FCS octet is 0x13,
\* and a final frame
V21Frames ==
    {Frame(<<255, 3, DLE, 1, 2>>, TRUE),
     Frame(<<DLE, 19, 5>>, TRUE),
     Frame(<<255, 19, 7, 8>>, TRUE)}

InitV21Rx ==
    InitWith(t31_init(FALSE, FALSE, 10))

V21Rx_class1 == Class1({<<FALSE, "H", 3>>})
V21Rx_restart == ModemControl({<<"RESTART", T31_CNG_TONE>>})
V21Rx_rx == Rx({20000}, {TRUE}, {}, V21Frames)
V21Rx_at_rx == AtRx({<<65>>})

NextV21Rx ==
    \/ V21Rx_class1
    \/ V21Rx_restart
    \/ V21Rx_rx
    \/ V21Rx_at_rx

SpecV21Rx == InitV21Rx /\ [][NextV21Rx]_vars

\* The step is the command +FRH=3
IsFrh3 == op'.name = "process_class1_cmd" /\ op'.arg = <<FALSE, "H", 3>>

\* The step is a t31_rx call in which the V.21 receiver hands hdlc_accept a frame
IsV21Frame ==
    /\ op'.name = "t31_rx"
    /\ op'.arg.v21.k = "frame"
    /\ s.rx_handler \in {"cng_rx", "fsk_rx"}
    /\ ~s.transmit \/ s.modem = T31_CNG_TONE

\* The first message of q that is not CONNECT, 0 if there is none
FirstResult(q) ==
    IF \E i \in 1..Len(q) : q[i][1] # AT_RESPONSE_CODE_CONNECT
    THEN CHOOSE i \in 1..Len(q) :
             /\ q[i][1] # AT_RESPONSE_CODE_CONNECT
             /\ \A j \in 1..(i - 1) : q[j][1] = AT_RESPONSE_CODE_CONNECT
    ELSE 0

\* What the DTE is sent for one queued message
Rendered(msg) ==
    IF Len(msg) > 1
    THEN (IF msg[1] = AT_RESPONSE_CODE_OK THEN <<RC(AT_RESPONSE_CODE_CONNECT)>> ELSE <<>>)
         \o DoubleDle(Tail(msg)) \o <<DLE, ETX, RC(msg[1])>>
    ELSE <<RC(msg[1])>>

RECURSIVE RenderedAll(_)
RenderedAll(q) == IF q = <<>> THEN <<>> ELSE Rendered(Head(q)) \o RenderedAll(Tail(q))

\* C6: the data the DTE is sent for a frame handed to hdlc_accept with its
\* FCS octets is the frame and FCS with every DLE doubled, then DLE ETX: when
\* the DTE is waiting the t31_rx call sends it; when it is not, the frame and
\* FCS are queued whole and the +FRH=3 that reads the message sends it.
C6_HdlcDelivery ==
    [][/\ (IsV21Frame /\ ~s.ok_is_pending /\ s.dte_is_waiting)
          => DataOf(dte') = DoubleDle(op'.arg.v21.msg) \o <<DLE, ETX>>
       /\ (IsV21Frame /\ ~s.ok_is_pending /\ ~s.dte_is_waiting
                      /\ Len(s.rx_queue) + 2 <= MaxQueue)
          => /\ s'.rx_queue # <<>>
             /\ Tail(s'.rx_queue[Len(s'.rx_queue)]) = op'.arg.v21.msg
             /\ dte' = <<>>
       /\ (IsFrh3 /\ s.modem = T31_V21_RX /\ FirstResult(s.rx_queue) # 0)
          => LET msg == s.rx_queue[FirstResult(s.rx_queue)]
             IN Len(msg) > 1 => DataOf(dte') = DoubleDle(Tail(msg)) \o <<DLE, ETX>>]_vars

IsConnect(x) == x = RC(AT_RESPONSE_CODE_CONNECT)

C6_Witness ==
    /\ op.name = "process_class1_cmd"
    /\ DataOf(dte) = <<DLE, DLE, 19, 5, DLE, ETX>>

\* C7 as stated: +FRH=3 sends the DTE every message queued before it, in the
\* order queued, leaves rx_queue empty and sets dte_is_waiting.
C7_DrainsQueue ==
    [][IsFrh3
       => /\ dte' = RenderedAll(s.rx_queue)
          /\ s'.rx_queue = <<>>
          /\ s'.dte_is_waiting]_vars

\* C7 amended: +FRH=3 given in another role than V21_RX restarts the modem,
\* which empties rx_queue unsent.  Given in the role V21_RX it sends the
\* queued messages in order up to the first that is not CONNECT, and that one
\* too, and leaves the rest queued without setting dte_is_waiting; only when
\* every queued message is CONNECT does it empty the queue and set
\* dte_is_waiting.
C7_DrainsToFirstResult ==
    [][IsFrh3
       => LET q == s.rx_queue
              k == FirstResult(q)
          IN IF s.modem # T31_V21_RX
             THEN dte' = <<>> /\ s'.rx_queue = <<>> /\ s'.dte_is_waiting
             ELSE IF k = 0
             THEN /\ dte' = RenderedAll(q)
                  /\ s'.rx_queue = <<>>
                  /\ s'.dte_is_waiting
             ELSE /\ dte' = RenderedAll(SubSeq(q, 1, k))
                  /\ s'.rx_queue = SubSeq(q, k + 1, Len(q))
                  /\ s'.dte_is_waiting = s.dte_is_waiting]_vars

\* +FRH=3 has sent a queued frame and left messages in the queue
C7_Witness ==
    /\ op.name = "process_class1_cmd"
    /\ DataOf(dte) # <<>>
    /\ s.rx_queue # <<>>
    /\ ~s.dte_is_waiting

\* C8: DTE data in DELIVERY mode sends the DTE the pending data and DLE ETX
\* if a signal is present, then OK, and leaves the DTE in OFFHOOK_COMMAND
\* mode; and from then until the next class 1 command no t31_rx call sends
\* the DTE a data octet or CONNECT.
C8_Cancellation ==
    [][/\ (/\ op'.name = "t31_at_rx"
           /\ s.at_rx_mode = "AT_MODE_DELIVERY"
           /\ Len(op'.arg) > 0)
          => /\ dte' = (IF s.rx_signal_present THEN s.rx_data \o <<DLE, ETX>> ELSE <<>>)
                       \o <<RC(AT_RESPONSE_CODE_OK)>>
             /\ s'.at_rx_mode = "AT_MODE_OFFHOOK_COMMAND"
       /\ (obs.cancelled /\ op'.name = "t31_rx")
          => /\ DataOf(dte') = <<>>
             /\ \A i \in 1..Len(dte') : dte'[i] # RC(AT_RESPONSE_CODE_CONNECT)]_vars

-----------------------------------------------------------------------------
(* The DTE inactivity timeout: the DTE has given +FTH=3, the AT interpreter  *)
(* arms or disarms the timeout through the modem control handler, and        *)
(* blocks of received samples pass while the DTE sends or is silent.         *)

InitDte ==
    InitWith(process_class1_cmd(Enter(t31_init(FALSE, FALSE, 10)), TRUE, "H", 3).s)

DteOps == {<<"DTE_TIMEOUT", 5000>>, <<"DTE_TIMEOUT", 0>>}
Dte_modem_control == ModemControl(DteOps)
DteLens == {10000, 20000}
Dte_rx == Rx(DteLens, {TRUE}, {}, {})
DteText == {<<255>>, <<DLE, ETX>>}
Dte_at_rx == AtRx(DteText)
DteCmds == {<<TRUE, "H", 3>>, <<FALSE, "H", 3>>}
Dte_class1 == Class1(DteCmds)

NextDte ==
    \/ Dte_modem_control
    \/ Dte_rx
    \/ Dte_at_rx
    \/ Dte_class1

SpecDte == InitDte /\ [][NextDte]_vars

\* C9: a t31_rx call that takes call_samples past an armed dte_data_timeout
\* sends ERROR, leaves the DTE in OFFHOOK_COMMAND mode and the modem in the
\* role SILENCE_TX, and no other t31_rx call sends ERROR; t31_at_rx moves an
\* armed deadline to call_samples + 5 s and leaves a disarmed one at 0.
C9_DteTimeout ==
    [][/\ op'.name = "t31_rx"
          => IF s.dte_data_timeout # 0 /\ s'.call_samples > s.dte_data_timeout
             THEN /\ dte' = <<RC(AT_RESPONSE_CODE_ERROR)>>
                  /\ s'.at_rx_mode = "AT_MODE_OFFHOOK_COMMAND"
                  /\ s'.modem = T31_SILENCE_TX
                  /\ s.modem # T31_SILENCE_TX => obs'.restarted
             ELSE \A i \in 1..Len(dte') : dte'[i] # RC(AT_RESPONSE_CODE_ERROR)
       /\ op'.name = "t31_at_rx"
          => s'.dte_data_timeout = IF s.dte_data_timeout # 0
                                   THEN s.call_samples + (5000 * 8)
                                   ELSE 0]_vars

\* C34: the ERROR of an expired dte_data_timeout is reported once: the t31_rx
\* call that follows the one that sent ERROR, the timeout not having been
\* armed again between the two, sends no ERROR.
C34_ErrorOnce ==
    [][(/\ op.name = "t31_rx"
        /\ dte = <<RC(AT_RESPONSE_CODE_ERROR)>>
        /\ op'.name = "t31_rx")
          => \A i \in 1..Len(dte') : dte'[i] # RC(AT_RESPONSE_CODE_ERROR)]_vars

\* The timeout has fired on a deadline that t31_at_rx had moved
C9_Witness ==
    /\ op.name = "t31_rx"
    /\ dte = <<RC(AT_RESPONSE_CODE_ERROR)>>
    /\ obs.restarted
    /\ s.dte_data_timeout > 5000 * 8
    /\ s.call_samples > s.dte_data_timeout

-----------------------------------------------------------------------------
(* T.38 paced non-ECM transmission: the DTE has given +FTM=96, the timed     *)
(* step is NON_ECM_MODEM with the V.29 9600 training indicator to come, the  *)
(* DTE feeds image data and t31_t38_send_timeout is called every 30 ms.      *)

InitT38 ==
    \E tep \in BOOLEAN :
        InitWith([process_class1_cmd(Enter(t31_init(TRUE, FALSE, 10)), TRUE, "M", 96).s
                     EXCEPT !.timed_step = "T38_TIMED_STEP_NON_ECM_MODEM",
                            !.next_tx_indicator = "T38_IND_V29_9600_TRAINING",
                            !.octets_per_data_packet = 2,
                            !.use_tep = tep])

T38Text == {<<65>>, <<DLE, ETX>>}
T38_at_rx == AtRx(T38Text)
T38Garbage == {0, 170}
T38_send_timeout == T38SendTimeout({ms_to_samples(MS_PER_TX_CHUNK)}, T38Garbage)

NextT38 ==
    \/ T38_at_rx
    \/ T38_send_timeout

SpecT38 == InitT38 /\ [][NextT38]_vars

\* The step is a t31_t38_send_timeout call that finds a timed step due
IsTimedStep(step) ==
    /\ op'.name = "t31_t38_send_timeout"
    /\ s.timed_step = step
    /\ s'.samples >= s.next_tx_samples

\* C10: the timed steps of a paced non-ECM transmission send, in this order,
\* NO_SIGNAL three times; 75 ms later the training indicator three times;
\* after the training time the image data in T4_NON_ECM_DATA packets of
\* octets_per_data_packet octets 30 ms apart, the packet with the last of
\* the data moving on to the trailer; the zero trailer packets and
\* T4_NON_ECM_SIG_END three times; 60 ms later NO_SIGNAL three times, and
\* timed_step is then NONE.
C10_PacedNonEcm ==
    [][/\ IsTimedStep("T38_TIMED_STEP_NON_ECM_MODEM")
          => /\ pkt' = <<[type |-> "indicator", what |-> "T38_IND_NO_SIGNAL",
                          buf |-> <<>>, count |-> 3]>>
             /\ s'.timed_step = "T38_TIMED_STEP_NON_ECM_MODEM_2"
             /\ s'.next_tx_samples = s.next_tx_samples + (75 * 8)
       /\ IsTimedStep("T38_TIMED_STEP_NON_ECM_MODEM_2")
          => /\ pkt' = <<[type |-> "indicator", what |-> s.next_tx_indicator,
                          buf |-> <<>>, count |-> 3]>>
             /\ s'.timed_step = "T38_TIMED_STEP_NON_ECM_MODEM_3"
       /\ IsTimedStep("T38_TIMED_STEP_NON_ECM_MODEM_3")
          => /\ Len(pkt') = 1
             /\ pkt'[1].what = "T38_FIELD_T4_NON_ECM_DATA"
             /\ s'.next_tx_samples = s.next_tx_samples + (30 * 8)
             /\ (s.tx_in_bytes - s.tx_out_bytes <= s.octets_per_data_packet)
                => s'.timed_step = "T38_TIMED_STEP_NON_ECM_MODEM_4"
       /\ IsTimedStep("T38_TIMED_STEP_NON_ECM_MODEM_4")
          => /\ Len(pkt') = 1
             /\ pkt'[1].what \in {"T38_FIELD_T4_NON_ECM_DATA", "T38_FIELD_T4_NON_ECM_SIG_END"}
             /\ \A i \in 1..Len(pkt'[1].buf) : pkt'[1].buf[i] = 0
       /\ IsTimedStep("T38_TIMED_STEP_NON_ECM_MODEM_5")
          => /\ pkt' = <<[type |-> "indicator", what |-> "T38_IND_NO_SIGNAL",
                          buf |-> <<>>, count |-> 3]>>
             /\ s'.timed_step = "T38_TIMED_STEP_NONE"]_vars

-----------------------------------------------------------------------------
(* The T.38 transmit scheduler: the DTE has given +FTH=3, the timed step is  *)
(* any of the steps of t31_t38_send_timeout, the DTE feeds frames and the    *)
(* function is called every 30 ms.                                           *)

TimedSteps ==
    {"T38_TIMED_STEP_NONE",
     "T38_TIMED_STEP_NON_ECM_MODEM", "T38_TIMED_STEP_NON_ECM_MODEM_2",
     "T38_TIMED_STEP_NON_ECM_MODEM_3", "T38_TIMED_STEP_NON_ECM_MODEM_4",
     "T38_TIMED_STEP_NON_ECM_MODEM_5",
     "T38_TIMED_STEP_HDLC_MODEM", "T38_TIMED_STEP_HDLC_MODEM_2",
     "T38_TIMED_STEP_HDLC_MODEM_3", "T38_TIMED_STEP_HDLC_MODEM_4",
     "T38_TIMED_STEP_CED", "T38_TIMED_STEP_CED_2",
     "T38_TIMED_STEP_CNG", "T38_TIMED_STEP_CNG_2",
     "T38_TIMED_STEP_PAUSE"}

InitTimed ==
    \E step \in TimedSteps, merge \in BOOLEAN :
        InitWith([process_class1_cmd(Enter(t31_init(TRUE, FALSE, 10)), TRUE, "H", 3).s
                     EXCEPT !.timed_step = step,
                            !.next_tx_indicator = "T38_IND_V21_PREAMBLE",
                            !.octets_per_data_packet = 2,
                            !.merge_tx_fields = merge])

TimedText == {<<255, 19, 1>>, <<DLE, ETX>>}
Timed_at_rx == AtRx(TimedText)
Timed_send_timeout == T38SendTimeout({ms_to_samples(MS_PER_TX_CHUNK)}, {0})

NextTimed ==
    \/ Timed_at_rx
    \/ Timed_send_timeout

SpecTimed == InitTimed /\ [][NextTimed]_vars



\* C11: a t31_t38_send_timeout call with timed_step NONE sends no packet and
\* leaves timed_step and next_tx_samples as they are; a call that leaves
\* samples short of next_tx_samples sends nothing and leaves the step; and a
\* call with any other timed_step that finds the deadline reached sends a
\* packet or changes timed_step.
C11_TimedDeadline ==
    [][op'.name = "t31_t38_send_timeout"
       => /\ s.timed_step = "T38_TIMED_STEP_NONE"
             => /\ pkt' = <<>>
                /\ s'.timed_step = "T38_TIMED_STEP_NONE"
                /\ s'.next_tx_samples = s.next_tx_samples
          /\ s'.samples < s.next_tx_samples
             => /\ pkt' = <<>>
                /\ s'.timed_step = s.timed_step
                /\ s'.next_tx_samples = s.next_tx_samples
          /\ (s.timed_step # "T38_TIMED_STEP_NONE" /\ s'.samples >= s.next_tx_samples)
             => (pkt' # <<>> \/ s'.timed_step # s.timed_step)]_vars

\* A call has found the deadline of a timed step not yet reached
C11_Witness ==
    /\ op.name = "t31_t38_send_timeout"
    /\ s.timed_step \notin {"T38_TIMED_STEP_NONE", "T38_TIMED_STEP_HDLC_MODEM_4"}
    /\ s.samples < s.next_tx_samples
    /\ pkt = <<>>

-----------------------------------------------------------------------------
(* T.38 reception: the far end's indicators and data fields arrive through   *)
(* the T.38 core while t31_t38_send_timeout counts the samples.              *)

T38RxIndicators ==
    {"T38_IND_NO_SIGNAL", "T38_IND_CNG", "T38_IND_CED", "T38_IND_V21_PREAMBLE",
     "T38_IND_V29_9600_TRAINING", "T38_IND_V8_ANSAM"}

InitT38Rx == InitWith(t31_init(TRUE, FALSE, 10))

T38Rx_indicator == T38RxIndicator(T38RxIndicators)
T38Rx_data == T38RxData({"T38_FIELD_HDLC_DATA"}, {<<255, 3>>})
T38Rx_missing == T38RxMissing
T38Rx_send_timeout == T38SendTimeoutUpTo({50000}, {0}, MaxSamples)

NextT38Rx ==
    \/ T38Rx_indicator
    \/ T38Rx_data
    \/ T38Rx_missing
    \/ T38Rx_send_timeout

SpecT38Rx == InitT38Rx /\ [][NextT38Rx]_vars

\* What a t31_t38_send_timeout call does to timeout_rx_samples: past an armed
\* deadline it disarms it, before the deadline it leaves it
TickDisarms ==
    op'.name = "t31_t38_send_timeout"
    => s'.timeout_rx_samples =
           IF s.timeout_rx_samples # 0 /\ s'.samples > s.timeout_rx_samples
           THEN 0
           ELSE s.timeout_rx_samples

\* C12 as stated: every training or V.21 preamble indicator received at
\* sample time t arms timeout_rx_samples to t + 15000 ms, and the first
\* t31_t38_send_timeout call past the deadline disarms it.
C12_EveryIndicatorArms ==
    [][/\ (op'.name = "process_rx_indicator" /\ op'.arg \in TrainingIndicators)
          => s'.timeout_rx_samples = s.samples + (15000 * 8)
       /\ TickDisarms]_vars

\* C12 amended: a training or V.21 preamble indicator that is not the
\* indicator last received arms timeout_rx_samples to t + 15000 ms; an
\* indicator equal to the one last received changes nothing, so it does not
\* arm or move the deadline; the first t31_t38_send_timeout call that brings
\* samples past an armed deadline sets it to 0 and calls before it leave it.
C12_NewIndicatorArms ==
    [][/\ (op'.name = "process_rx_indicator" /\ op'.arg \in TrainingIndicators)
          => IF op'.arg # s.current_rx_indicator
             THEN s'.timeout_rx_samples = s.samples + (15000 * 8)
             ELSE s'.timeout_rx_samples = s.timeout_rx_samples
       /\ TickDisarms]_vars

\* The deadline armed by a training indicator has passed and been disarmed
C12_Witness ==
    /\ op.name = "t31_t38_send_timeout"
    /\ s.current_rx_indicator = "T38_IND_V29_9600_TRAINING"
    /\ s.timeout_rx_samples = 0
    /\ s.samples > 15000 * 8

\* The receiver state an indicator can bear on
ReceiverState(st) ==
    <<st.timeout_rx_samples, st.hdlc_rx_len, st.missing_data,
      st.rx_signal_present, st.rx_trained, st.rx_message_received,
      st.current_rx_indicator>>

\* C13: an indicator delivered to process_rx_indicator again, with no other
\* indicator delivered since, leaves the receiver state (timeout_rx_samples,
\* hdlc_rx_len, missing_data, the signal flags) as the first delivery left
\* it, and sends nothing.
C13_IndicatorIdempotent ==
    [][(op'.name = "process_rx_indicator" /\ op'.arg = s.current_rx_indicator)
       => /\ ReceiverState(s') = ReceiverState(s)
          /\ dte' = <<>>
          /\ pkt' = <<>>]_vars

\* A training indicator delivered again while a frame is being received and
\* the deadline of the first delivery still stands
C13_Witness ==
    /\ op.name = "process_rx_indicator"
    /\ op.arg = "T38_IND_V21_PREAMBLE"
    /\ s.hdlc_rx_len > 0
    /\ s.timeout_rx_samples # 0
    /\ s.timeout_rx_samples < s.samples + (15000 * 8)

-----------------------------------------------------------------------------
(* The calling side listening for V.21 while it sends CNG, or stays silent   *)
(* (NOCNG): the modem has been restarted to the tone and the AT interpreter  *)
(* has or has not marked the DTE as waiting for the first frame.             *)

InitCng ==
    \E role \in {T31_CNG_TONE, T31_NOCNG_TONE}, waiting \in BOOLEAN :
        InitWith([restart_modem(Enter(t31_init(FALSE, FALSE, 10)), role).s
                     EXCEPT !.dte_is_waiting = waiting])

CngFrames == V21Frames \cup {Frame(<<255, 3, 9, 9>>, FALSE)}
Cng_rx == Rx({20000}, {TRUE}, {}, CngFrames)
Cng_class1 == Class1({<<FALSE, "H", 3>>})

NextCng ==
    \/ Cng_rx
    \/ Cng_class1

SpecCng == InitCng /\ [][NextCng]_vars

\* The step is a t31_rx call in which cng_rx or fsk_rx passes the V.21
\* receiver's event on to hdlc_accept
IsV21Event ==
    /\ op'.name = "t31_rx"
    /\ s.rx_handler \in {"cng_rx", "fsk_rx"}
    /\ ~s.transmit \/ s.modem = T31_CNG_TONE
    /\ s.rx_handler = "cng_rx" => s'.call_samples <= s.s_reg7 * 1000 * 8

\* C14: a framing-OK from the V.21 receiver while the role is CNG_TONE or
\* NOCNG_TONE stops the tone and makes the role V21_RX, and a waiting DTE is
\* sent CONNECT, once; the frame that follows is sent to it stuffed and ended
\* by DLE ETX after that CONNECT, and OK after the frame: at once, or, for a
\* final frame, when the carrier drops.
C14_CngRace ==
    [][/\ (/\ IsV21Event
           /\ s.modem \in {T31_CNG_TONE, T31_NOCNG_TONE}
           /\ IsSpecial(op'.arg.v21, PUTBIT_FRAMING_OK))
          => /\ s'.modem = T31_V21_RX
             /\ ~s'.transmit
             /\ (s.dte_is_waiting /\ ~s.rx_message_received)
                => dte' = <<RC(AT_RESPONSE_CODE_CONNECT)>> /\ s'.rx_message_received
             /\ (s.dte_is_waiting /\ s.rx_message_received) => dte' = <<>>
       /\ (/\ IsV21Event
           /\ op'.arg.v21.k = "frame"
           /\ op'.arg.v21.ok
           /\ s.dte_is_waiting /\ ~s.ok_is_pending)
          => LET final == op'.arg.v21.msg[2] = 19
             IN /\ dte' = (IF s.rx_message_received
                           THEN <<>> ELSE <<RC(AT_RESPONSE_CODE_CONNECT)>>)
                          \o DoubleDle(op'.arg.v21.msg) \o <<DLE, ETX>>
                          \o (IF final THEN <<>> ELSE <<RC(AT_RESPONSE_CODE_OK)>>)
                /\ s'.ok_is_pending = final
       /\ (/\ IsV21Event
           /\ IsSpecial(op'.arg.v21, PUTBIT_CARRIER_DOWN)
           /\ s.ok_is_pending /\ s.dte_is_waiting /\ s.rx_message_received)
          => dte' = <<RC(AT_RESPONSE_CODE_OK)>> /\ ~s'.ok_is_pending]_vars

\* The frame has reached the DTE that was waiting during the tone, the
\* CONNECT having gone before it
C14_Witness ==
    /\ op.name = "t31_rx"
    /\ op.arg.v21.k = "frame"
    /\ s.modem = T31_V21_RX
    /\ s.rx_handler = "cng_rx"
    /\ dte = <<255, 3, DLE, DLE, 1, 2, DLE, ETX, RC(AT_RESPONSE_CODE_OK)>>

-----------------------------------------------------------------------------
(* Receiving with a fast modem on the audio path: the DTE has given +FRM     *)
(* with +FAR=0 or +FAR=1, and the fast receiver and the V.21 receiver run    *)
(* side by side until one of them has the signal.                            *)

FastRxRoles == {T31_V17_RX, T31_V27TER_RX, T31_V29_RX}
EarlyRx == {"early_v17_rx", "early_v27ter_rx", "early_v29_rx"}

InitFastRx ==
    \E far \in BOOLEAN, val \in {48, 96, 98} :
        InitWith(process_class1_cmd(Enter(t31_init(FALSE, far, 10)), FALSE, "M", val).s)

FastRxOctets == {DLE, 65}
FastRxFrames == {Frame(<<255, 3, 1, 2>>, TRUE)}
FastRx_rx == Rx({10000}, {TRUE}, FastRxOctets, FastRxFrames)
FastRx_class1 == Class1({<<FALSE, "M", 96>>})

NextFastRx ==
    \/ FastRx_rx
    \/ FastRx_class1

SpecFastRx == InitFastRx /\ [][NextFastRx]_vars

AdaptiveFallbackTaken ==
    /\ op.name = "t31_rx"
    /\ s.adaptive_receive
    /\ dte = <<RC(AT_RESPONSE_CODE_FRH3), RC(AT_RESPONSE_CODE_CONNECT)>>
    /\ s.modem = T31_V21_RX

FastRxAlone == {"v17_rx", "v27ter_rx", "v29_rx"}

\* The step is a t31_rx call in which the fast receiver reports e to
\* non_ecm_put_bit
FastReports(e) ==
    /\ op'.name = "t31_rx"
    /\ s.rx_handler \in EarlyRx \cup FastRxAlone
    /\ ~s.transmit
    /\ op'.arg.fast = e

\* C16: after +FRM the fast receiver's training success sends CONNECT; every
\* octet received after it goes to the DTE behind the octets before it, a
\* DLE doubled, held in rx_data until it is passed on; carrier down after a
\* training success sends what is held, DLE ETX and NO CARRIER and sets the
\* DTE mode to OFFHOOK_COMMAND; carrier down without a training success
\* before it sends neither DLE ETX nor NO CARRIER.
C16_NonEcmRxOrder ==
    [][/\ FastReports(Special(PUTBIT_TRAINING_SUCCEEDED))
          => /\ dte' = <<RC(AT_RESPONSE_CODE_CONNECT)>>
             /\ s'.rx_signal_present
             /\ s'.rx_handler \in FastRxAlone
       /\ (s'.rx_handler \in FastRxAlone /\ s.rx_handler \notin FastRxAlone)
          => IsSpecial(op'.arg.fast, PUTBIT_TRAINING_SUCCEEDED)
       /\ (/\ FastReports(op'.arg.fast)
           /\ op'.arg.fast.k = "octet"
           /\ s.rx_handler \in FastRxAlone)
          => /\ dte' \o s'.rx_data = s.rx_data \o DoubleDle(<<op'.arg.fast.v>>)
             /\ Len(s'.rx_data) < RxFlushLen
       /\ (FastReports(Special(PUTBIT_CARRIER_DOWN)) /\ s.rx_handler \in FastRxAlone)
          => IF s.rx_signal_present
             THEN /\ dte' = s.rx_data \o <<DLE, ETX, RC(AT_RESPONSE_CODE_NO_CARRIER)>>
                  /\ s'.rx_data = <<>>
                  /\ s'.at_rx_mode = "AT_MODE_OFFHOOK_COMMAND"
                  /\ ~s'.rx_signal_present
             ELSE dte' = <<>> /\ s'.at_rx_mode = s.at_rx_mode
       /\ (FastReports(Special(PUTBIT_CARRIER_DOWN)) /\ s.rx_handler \in EarlyRx)
          => /\ \A i \in 1..Len(dte') : dte'[i] # RC(AT_RESPONSE_CODE_NO_CARRIER)
             /\ op'.arg.v21.k = "none" => dte' = <<>> /\ s'.at_rx_mode = s.at_rx_mode]_vars

\* The carrier has dropped while one received octet was held in rx_data
C16_Witness ==
    /\ op.name = "t31_rx"
    /\ IsSpecial(op.arg.fast, PUTBIT_CARRIER_DOWN)
    /\ s.at_rx_mode = "AT_MODE_OFFHOOK_COMMAND"
    /\ dte = <<65, DLE, ETX, RC(AT_RESPONSE_CODE_NO_CARRIER)>>
    /\ ~s.rx_signal_present

-----------------------------------------------------------------------------
(* Sending HDLC frames on the audio path: the DTE gives +FTH=3 and frames,   *)
(* each ended by DLE ETX, while t31_tx runs the V.21 modulator, which calls  *)
(* hdlc_tx_underflow when it has no frame and runs dry after its shutdown.   *)

InitHdlcAudio == InitWith(t31_init(FALSE, FALSE, 10))

HdlcAudio_class1 == Class1({<<TRUE, "H", 3>>})
HdlcAudioText == {<<255, 3>>, <<255, 19>>, <<DLE, ETX>>}
HdlcAudio_at_rx == AtRx(HdlcAudioText)
HdlcAudioEvents == {"fill", "underflow", "dry"}
HdlcAudio_tx == Tx(HdlcAudioEvents)

NextHdlcAudio ==
    \/ HdlcAudio_class1
    \/ HdlcAudio_at_rx
    \/ HdlcAudio_tx

SpecHdlcAudio == InitHdlcAudio /\ [][NextHdlcAudio]_vars

\* C17: +FTH=3 leaves the role V21_TX and the DTE mode HDLC and sends CONNECT;
\* a frame of two octets or more ended by DLE ETX sets hdlc_final to bit 0x10
\* of its second octet; when the transmitter has sent what it was given, a
\* frame that was not final is answered by CONNECT, and a final one by no
\* CONNECT but the shutdown of the carrier; when the carrier has gone the DTE
\* is sent OK, the DTE mode is OFFHOOK_COMMAND and transmission has stopped,
\* so that no second OK follows.
C17_HdlcTransmit ==
    [][/\ (op'.name = "process_class1_cmd" /\ op'.arg = <<TRUE, "H", 3>>)
          => /\ s'.modem = T31_V21_TX
             /\ s'.at_rx_mode = "AT_MODE_HDLC"
             /\ s'.transmit
             /\ dte' = <<RC(AT_RESPONSE_CODE_CONNECT)>>
       /\ (/\ op'.name = "t31_at_rx"
           /\ s.at_rx_mode = "AT_MODE_HDLC"
           /\ obs'.framed # <<>>)
          => LET f == obs'.framed[Len(obs'.framed)]
             IN /\ dte' = <<>>
                /\ Len(f) >= 2 => s'.hdlc_final = Bit10(f[2])
       /\ (op'.name = "t31_tx" /\ op'.arg = "underflow")
          => IF s.hdlc_final
             THEN /\ dte' = <<>>
                  /\ obs'.framed = <<<<>>>>
                  /\ ~s'.hdlc_final
             ELSE /\ dte' = <<RC(AT_RESPONSE_CODE_CONNECT)>>
                  /\ obs'.framed = <<>>
       /\ (op'.name = "t31_tx" /\ op'.arg = "dry" /\ s.modem = T31_V21_TX)
          => /\ dte' = <<RC(AT_RESPONSE_CODE_OK)>>
             /\ s'.at_rx_mode = "AT_MODE_OFFHOOK_COMMAND"
             /\ s'.modem = T31_SILENCE_TX
             /\ ~s'.transmit
       /\ (op'.name = "t31_tx" /\ ~s.transmit) => dte' = <<>>]_vars

\* The final frame has been sent and the transmitter told to shut down
C17_Witness ==
    /\ op.name = "t31_tx"
    /\ op.arg = "underflow"
    /\ obs.framed = <<<<>>>>
    /\ s.modem = T31_V21_TX
    /\ dte = <<>>

-----------------------------------------------------------------------------
(* restart_modem for every role, on the audio path and with t38_mode set,    *)
(* from states in which reception and transmission have left their marks:    *)
(* the application asks for the restart through the modem control handler,   *)
(* the DTE through the Class 1 commands.                                     *)

Roles == T31_FLUSH..T31_V29_RX

\* t38_mode is a field the application sets after t31_init
InitRestart ==
    \E t38 \in BOOLEAN :
        InitWith([t31_init(FALSE, FALSE, 10) EXCEPT !.t38_mode = t38])

Restart_modem_control ==
    \E r \in Roles :
        Commit(t31_modem_control_handler(Enter(s), "RESTART", r),
               "t31_modem_control_handler", <<"RESTART", r>>)

RestartCmds == {<<TRUE, "M", 96>>, <<FALSE, "M", 96>>}
Restart_class1 == Class1(RestartCmds)
Restart_at_rx == AtRx({<<65, DLE, ETX>>})
Restart_rx == Rx({90000}, {TRUE}, {65}, {})
Restart_tx == Tx({"get_bit"})

NextRestart ==
    \/ Restart_modem_control
    \/ Restart_class1
    \/ Restart_at_rx
    \/ Restart_rx
    \/ Restart_tx

SpecRestart == InitRestart /\ [][NextRestart]_vars

\* The step is a RESTART request for the role r
RestartTo(r) ==
    /\ op'.name = "t31_modem_control_handler"
    /\ op'.arg = <<"RESTART", r>>

\* C18: restart_modem called with the role the modem has changes no field of
\* the state, leaves the rx_queue as it is and emits no packet, no response
\* and no modem control.
C18_SameRoleNoOp ==
    [][RestartTo(s.modem)
       => /\ s' = s
          /\ dte' = <<>>
          /\ pkt' = <<>>
          /\ ctl' = <<>>
          /\ ~obs'.restarted]_vars

\* A restart to the role the modem has, with messages in the rx_queue
C18_Witness ==
    /\ op.name = "t31_modem_control_handler"
    /\ op.arg = <<"RESTART", s.modem>>
    /\ ~obs.restarted
    /\ s.rx_queue # <<>>

\* The receiver restart_modem installs for the role r
RoleReceiver(r, t38) ==
    IF t38
    THEN "dummy_rx"
    ELSE CASE r \in {T31_CNG_TONE, T31_NOCNG_TONE} -> "cng_rx"
           [] r = T31_V21_RX -> "fsk_rx"
           [] r = T31_V17_RX -> "early_v17_rx"
           [] r = T31_V27TER_RX -> "early_v27ter_rx"
           [] r = T31_V29_RX -> "early_v29_rx"
           [] r = T31_SILENCE_RX -> "silence_rx"
           [] OTHER -> "dummy_rx"

\* C19: restart_modem called with a role other than the one the modem has
\* leaves the rx_queue empty, data_final, rx_signal_present, rx_trained and
\* rx_message_received FALSE, bit_no 0, current_byte 0xFF, tx_in_bytes and
\* tx_out_bytes 0, and rx_handler the receiver of the role, dummy_rx for a
\* role that has none and for every role when t38_mode is set.
C19_RestartResets ==
    [][\A r \in Roles :
         (RestartTo(r) /\ r # s.modem)
         => /\ obs'.restarted
            /\ s'.rx_queue = <<>>
            /\ ~s'.data_final
            /\ ~s'.rx_signal_present
            /\ ~s'.rx_trained
            /\ ~s'.rx_message_received
            /\ s'.bit_no = 0
            /\ s'.current_byte = 255
            /\ s'.tx_in_bytes = 0
            /\ s'.tx_out_bytes = 0
            /\ s'.rx_handler = RoleReceiver(r, s.t38_mode)]_vars

\* The modem has been restarted from another role to V.17 reception
C19_Witness ==
    /\ op.name = "t31_modem_control_handler"
    /\ op.arg = <<"RESTART", T31_V17_RX>>
    /\ obs.restarted
    /\ s.modem = T31_V17_RX
    /\ s.rx_handler = "early_v17_rx"

-----------------------------------------------------------------------------
(* The modulation table of +FTM and +FRM: every code in both directions,     *)
(* the DTE cancelling a reception and the transmitter running dry to bring   *)
(* the DTE back to command mode between the commands.                        *)

Class1Codes == {24, 48, 72, 96, 73, 74, 97, 98, 121, 122, 145, 146}

InitClass1 ==
    \E t38 \in BOOLEAN :
        InitWith([t31_init(FALSE, FALSE, 10) EXCEPT !.t38_mode = t38])

Class1Cmds ==
    {<<d, "M", val>> : d \in BOOLEAN, val \in Class1Codes \cup {25}}
    \cup {<<d, "H", 4>> : d \in BOOLEAN}
Class1_cmd == Class1(Class1Cmds)
Class1_at_rx == AtRx({<<65>>})
Class1_tx == Tx({"dry"})

NextClass1 ==
    \/ Class1_cmd
    \/ Class1_at_rx
    \/ Class1_tx

SpecClass1 == InitClass1 /\ [][NextClass1]_vars

\* V.27ter for 24 and 48, V.29 for 72 and 96, V.17 for the rest: the role for
\* transmitting (tx) or receiving
CodeRole(val, tx) ==
    CASE val \in {24, 48} -> IF tx THEN T31_V27TER_TX ELSE T31_V27TER_RX
      [] val \in {72, 96} -> IF tx THEN T31_V29_TX ELSE T31_V29_RX
      [] OTHER -> IF tx THEN T31_V17_TX ELSE T31_V17_RX

CodeRate(val) ==
    CASE val = 24 -> 2400
      [] val = 48 -> 4800
      [] val \in {72, 73, 74} -> 7200
      [] val \in {96, 97, 98} -> 9600
      [] val \in {121, 122} -> 12000
      [] OTHER -> 14400

\* C20: for each of the twelve codes and each direction process_class1_cmd
\* sets bit_rate and short_train to the code's rate and training (short for
\* 74, 98, 122 and 146 only), leaves the role at the transmit or the receive
\* role of the code's modem, through restart_modem when the role was another,
\* and returns FALSE.
C20_ModulationTable ==
    [][(/\ op'.name = "process_class1_cmd"
        /\ op'.arg[2] = "M"
        /\ op'.arg[3] \in Class1Codes)
       => LET tx == op'.arg[1]
              val == op'.arg[3]
          IN /\ s'.bit_rate = CodeRate(val)
             /\ s'.short_train = (val \in {74, 98, 122, 146})
             /\ s'.modem = CodeRole(val, tx)
             /\ s.modem # CodeRole(val, tx) => obs'.restarted
             /\ obs'.ret = 0]_vars

\* +FRM=146 has been given
C20_Witness ==
    /\ op.name = "process_class1_cmd"
    /\ op.arg = <<FALSE, "M", 146>>
    /\ s.modem = T31_V17_RX
    /\ s.short_train
    /\ s.bit_rate = 14400
    /\ obs.ret = 0

\* C21: for operation 'H' with a value other than 3, and for a modulation
\* command with a value the table does not hold, process_class1_cmd returns
\* a negative value, changes no field of the state (role, bit_rate,
\* short_train, transmit, DTE mode and rx_queue among them) and emits no
\* response, packet or modem control.
C21_UnknownCode ==
    [][(/\ op'.name = "process_class1_cmd"
        /\ \/ op'.arg[2] = "H" /\ op'.arg[3] # 3
           \/ op'.arg[2] = "M" /\ op'.arg[3] \notin Class1Codes)
       => /\ obs'.ret < 0
          /\ s' = s
          /\ dte' = <<>>
          /\ pkt' = <<>>
          /\ ctl' = <<>>]_vars

\* An unknown code for transmission has been refused after a command at
\* 9600 bit/s, the modem not transmitting
C21_Witness ==
    /\ op.name = "process_class1_cmd"
    /\ op.arg[3] \in {4, 25}
    /\ op.arg[1]
    /\ obs.ret = -1
    /\ s.bit_rate = 9600
    /\ ~s.transmit

-----------------------------------------------------------------------------
(* HDLC reception over T.38: the DTE has given +FRH=3 and the T.38 core      *)
(* hands on the data fields and indicators of the received packets and       *)
(* reports the packets that were lost.                                       *)

HdlcFields ==
    {"T38_FIELD_HDLC_DATA", "T38_FIELD_HDLC_FCS_OK", "T38_FIELD_HDLC_FCS_BAD",
     "T38_FIELD_HDLC_FCS_OK_SIG_END", "T38_FIELD_HDLC_SIG_END"}

\* The octets of a data field: the start of a frame, a long run, and octets
\* that do not start a frame
FieldBufs == {<<255, 3>>, [i \in 1..100 |-> 255], <<3>>}

\* t38_mode is a field the application sets after t31_init
InitT38Data ==
    InitWith(process_class1_cmd(
                 Enter([t31_init(TRUE, FALSE, 10) EXCEPT !.t38_mode = TRUE]),
                 FALSE, "H", 3).s)

T38Data_data == T38RxData(HdlcFields, FieldBufs)
T38Data_missing == T38RxMissing
T38DataInds == {"T38_IND_NO_SIGNAL", "T38_IND_V21_PREAMBLE"}
T38Data_indicator == T38RxIndicator(T38DataInds)

NextT38Data ==
    \/ T38Data_data
    \/ T38Data_missing
    \/ T38Data_indicator

SpecT38Data == InitT38Data /\ [][NextT38Data]_vars

\* C23: hdlc_rx_len never exceeds 254, whatever fields and indicators arrive:
\* an HDLC_DATA field of len octets is appended when hdlc_rx_len + len <= 254
\* and otherwise leaves hdlc_rx_len as it is.
C23_HdlcRxLen ==
    [][/\ s'.hdlc_rx_len <= 256 - 2
       /\ (op'.name = "process_rx_data" /\ op'.arg = "T38_FIELD_HDLC_DATA")
          => \E b \in FieldBufs :
                s'.hdlc_rx_len = IF s.hdlc_rx_len + Len(b) <= 256 - 2
                                 THEN s.hdlc_rx_len + Len(b)
                                 ELSE s.hdlc_rx_len]_vars

\* hdlc_rx_buf is as full as it gets, and a data field has just arrived
C23_Witness ==
    /\ op.name = "process_rx_data"
    /\ op.arg = "T38_FIELD_HDLC_DATA"
    /\ s.hdlc_rx_len = 256 - 2

\* The step is process_rx_data for a field of type f
FieldArrives(f) ==
    /\ op'.name = "process_rx_data"
    /\ op'.arg = f

\* The calls of hdlc_accept the step has made with a frame
FramesAccepted == SelectSeq(obs'.accepted, LAMBDA c : c.len >= 0)

CarrierDownOnly == <<[len |-> PUTBIT_CARRIER_DOWN, ok |-> TRUE]>>

\* C24: on HDLC_FCS_OK the frame put together goes to hdlc_accept, with ok
\* TRUE, if and only if hdlc_rx_len > 0, missing_data is FALSE and the modem
\* is receiving V.21; hdlc_rx_len is 0 and missing_data FALSE afterwards.
C24_FcsOkDelivery ==
    [][FieldArrives("T38_FIELD_HDLC_FCS_OK")
       => /\ (FramesAccepted = <<[len |-> s.hdlc_rx_len, ok |-> TRUE]>>)
             <=> (s.hdlc_rx_len > 0 /\ ~s.missing_data /\ s.modem = T31_V21_RX)
          /\ s'.hdlc_rx_len = 0
          /\ ~s'.missing_data]_vars

\* C25: a field hands at most one frame to hdlc_accept, the one its FCS
\* closes; HDLC_FCS_OK_SIG_END straight after HDLC_FCS_OK hands over no frame,
\* only the carrier-down event.
C25_FrameOrder ==
    [][/\ op'.name = "process_rx_data" => Len(FramesAccepted) <= 1
       /\ (/\ FieldArrives("T38_FIELD_HDLC_FCS_OK_SIG_END")
           /\ s.current_rx_field_type = "T38_FIELD_HDLC_FCS_OK"
           /\ s.modem = T31_V21_RX)
          => obs'.accepted = CarrierDownOnly]_vars

\* C26: process_rx_missing sets missing_data; HDLC_DATA fields leave it set;
\* the next HDLC_FCS_OK hands no frame to hdlc_accept and resets hdlc_rx_len
\* and missing_data.
C26_MissingData ==
    [][/\ op'.name = "process_rx_missing" => s'.missing_data
       /\ (FieldArrives("T38_FIELD_HDLC_DATA") /\ s.missing_data) => s'.missing_data
       /\ (FieldArrives("T38_FIELD_HDLC_FCS_OK") /\ s.missing_data)
          => /\ obs'.accepted = <<>>
             /\ s'.hdlc_rx_len = 0
             /\ ~s'.missing_data]_vars

\* A gap has been reported in the middle of a frame
C26_Witness ==
    /\ op.name = "process_rx_missing"
    /\ s.missing_data
    /\ s.hdlc_rx_len > 0
    /\ s.current_rx_field_type = "T38_FIELD_HDLC_DATA"

\* C27: HDLC_FCS_OK_SIG_END for a frame with octets missing, while receiving
\* V.21, hands hdlc_accept the carrier-down event and no frame.
C27_MissingSigEnd ==
    [][(/\ FieldArrives("T38_FIELD_HDLC_FCS_OK_SIG_END")
        /\ s.missing_data
        /\ s.modem = T31_V21_RX)
       => obs'.accepted = CarrierDownOnly]_vars

-----------------------------------------------------------------------------
(* Whole frames, under SpecT38Data.  The model keeps the length of the frame *)
(* in hdlc_rx_buf, not its octets.                                           *)

-----------------------------------------------------------------------------

(* The HDLC steps of the T.38 transmit scheduler, under SpecTimed.           *)

\* The tick has run the step st and sent something
TickSends(st) ==
    /\ op'.name = "t31_t38_send_timeout"
    /\ s.timed_step = st
    /\ pkt' # <<>>

\* C28: a tick of the HDLC data step sends the next octets_per_data_packet
\* octets of the frame, or the fewer that are left, and never an empty
\* HDLC_DATA field; with merge_tx_fields the last of them travels with the
\* terminator; the frame gets one terminator, which with no other frame
\* waiting is HDLC_FCS_OK_SIG_END, after which the data steps are over.
C28_HdlcChunking ==
    [][/\ TickSends("T38_TIMED_STEP_HDLC_MODEM_2")
          => LET left == s.hdlc_tx_len - s.hdlc_tx_ptr
                 n == Min(s.octets_per_data_packet, left)
             IN /\ Len(pkt') = 1
                /\ pkt'[1].buf # <<>>
                /\ pkt'[1].buf = [k \in 1..n |-> At(s.hdlc_tx_buf, s.hdlc_tx_ptr + k - 1)]
                /\ (left <= s.octets_per_data_packet /\ s.merge_tx_fields)
                   => /\ pkt'[1].what = "T38_FIELD_HDLC_DATA+T38_FIELD_HDLC_FCS_OK_SIG_END"
                      /\ s'.timed_step = "T38_TIMED_STEP_HDLC_MODEM_4"
       /\ TickSends("T38_TIMED_STEP_HDLC_MODEM_3")
          => /\ pkt' = <<[type |-> "data", what |-> "T38_FIELD_HDLC_FCS_OK_SIG_END",
                          buf |-> <<>>, count |-> s.data_end_tx_count]>>
             /\ s'.timed_step = "T38_TIMED_STEP_HDLC_MODEM_4"]_vars

-----------------------------------------------------------------------------
\* C37: every T.38 transmit flow ends.  With no new frame or data supplied,
\* each t31_t38_send_timeout call that finds a step other than NONE due moves
\* on to another step or uses up some of what the step has left to send (the
\* octets of the frame, the buffered image data, the trailer), so the steps
\* run out and timed_step becomes NONE; and with timed_step NONE nothing is
\* sent.
C37_TimedFlowsEnd ==
    [][/\ (/\ op'.name = "t31_t38_send_timeout"
           /\ s.timed_step # "T38_TIMED_STEP_NONE"
           /\ s'.samples >= s.next_tx_samples)
          => \/ s'.timed_step # s.timed_step
             \/ /\ s.timed_step = "T38_TIMED_STEP_HDLC_MODEM_2"
                /\ s'.hdlc_tx_len - s'.hdlc_tx_ptr < s.hdlc_tx_len - s.hdlc_tx_ptr
             \/ /\ s.timed_step = "T38_TIMED_STEP_NON_ECM_MODEM_3"
                /\ s'.tx_in_bytes - s'.tx_out_bytes < s.tx_in_bytes - s.tx_out_bytes
             \/ /\ s.timed_step = "T38_TIMED_STEP_NON_ECM_MODEM_4"
                /\ s'.trailer_bytes < s.trailer_bytes
       /\ (op'.name = "t31_t38_send_timeout" /\ s.timed_step = "T38_TIMED_STEP_NONE")
          => pkt' = <<>> /\ s'.timed_step = "T38_TIMED_STEP_NONE"]_vars

-----------------------------------------------------------------------------

(* The early receive handlers, under SpecFastRx.                             *)

AloneOf(h) ==
    CASE h = "early_v17_rx" -> "v17_rx"
      [] h = "early_v27ter_rx" -> "v27ter_rx"
      [] OTHER -> "v29_rx"

\* C29: a t31_rx call with an early handler installed leaves the fast
\* receiver alone installed if the fast modem is trained after it, and then
\* the V.21 receiver has not been run; otherwise the V.21 receiver alone if
\* rx_message_received is set after it; otherwise the handler it found.  No
\* step but one that runs restart_modem installs an early handler.
C29_EarlyReceive ==
    [][/\ (/\ op'.name = "t31_rx"
           /\ s.rx_handler \in EarlyRx
           /\ ~s.transmit
           /\ ~obs'.restarted)
          => /\ s'.rx_handler = IF s'.rx_trained
                                THEN AloneOf(s.rx_handler)
                                ELSE IF s'.rx_message_received
                                     THEN "fsk_rx"
                                     ELSE s.rx_handler
             /\ s'.rx_trained => obs'.accepted = <<>>
       /\ (s'.rx_handler \in EarlyRx /\ s.rx_handler \notin EarlyRx)
          => obs'.restarted]_vars

\* The fast modem has trained in the block in which V.21 framing was found
C29_Witness ==
    /\ op.name = "t31_rx"
    /\ IsSpecial(op.arg.fast, PUTBIT_TRAINING_SUCCEEDED)
    /\ IsSpecial(op.arg.v21, PUTBIT_FRAMING_OK)
    /\ s.rx_handler \in FastRxAlone
    /\ s.rx_trained
    /\ s.modem \in FastRxRoles

-----------------------------------------------------------------------------
(* The end of a transmission on the audio path: the silence of +FTS, the CED *)
(* tone, HDLC frames and image data, each sent until the transmit handlers   *)
(* have nothing more for a block.                                            *)

\* do_hangup is set by the AT interpreter for ATH
InitTxEnd ==
    \E hangup \in BOOLEAN :
        InitWith([t31_init(FALSE, FALSE, 10) EXCEPT !.do_hangup = hangup])

TxEndCmds ==
    {<<TRUE, "S", 1>>, <<TRUE, "H", 3>>,
     <<TRUE, "M", 48>>, <<TRUE, "M", 96>>, <<TRUE, "M", 145>>}
TxEnd_class1 == Class1(TxEndCmds)
TxEnd_restart == ModemControl({<<"RESTART", T31_CED_TONE>>})
TxEndEvents == {"fill", "next", "dry"}
TxEnd_tx == Tx(TxEndEvents)

NextTxEnd ==
    \/ TxEnd_class1
    \/ TxEnd_restart
    \/ TxEnd_tx

SpecTxEnd == InitTxEnd /\ [][NextTxEnd]_vars

TxRoles == {T31_V21_TX, T31_V17_TX, T31_V27TER_TX, T31_V29_TX}

\* C30: when the transmit handler and the one queued behind it have both run
\* dry in a t31_tx call, the role SILENCE_TX gives OK, and the hang-up with
\* ONHOOK_COMMAND if do_hangup is set, OFFHOOK_COMMAND if not; the role
\* CED_TONE gives a restart to V21_TX with the DTE mode HDLC; the roles
\* V21_TX, V17_TX, V27TER_TX and V29_TX give OK, OFFHOOK_COMMAND and a
\* restart to SILENCE_TX.  The role -1 or the stopped transmission each of
\* them leaves makes the t31_tx calls that follow send nothing to the DTE.
C30_EndOfTransmission ==
    [][/\ (op'.name = "t31_tx" /\ op'.arg = "dry" /\ s.transmit)
          => CASE s.modem = T31_SILENCE_TX ->
                    /\ dte' = <<RC(AT_RESPONSE_CODE_OK)>>
                    /\ s'.modem = -1
                    /\ IF s.do_hangup
                       THEN /\ ctl' = <<<<"HANGUP", 0>>>>
                            /\ s'.at_rx_mode = "AT_MODE_ONHOOK_COMMAND"
                            /\ ~s'.do_hangup
                       ELSE /\ ctl' = <<>>
                            /\ s'.at_rx_mode = "AT_MODE_OFFHOOK_COMMAND"
               [] s.modem = T31_CED_TONE ->
                    /\ dte' = <<>>
                    /\ obs'.restarted
                    /\ s'.modem = T31_V21_TX
                    /\ s'.at_rx_mode = "AT_MODE_HDLC"
               [] s.modem \in TxRoles ->
                    /\ dte' = <<RC(AT_RESPONSE_CODE_OK)>>
                    /\ s'.at_rx_mode = "AT_MODE_OFFHOOK_COMMAND"
                    /\ obs'.restarted
                    /\ s'.modem = T31_SILENCE_TX
                    /\ ~s'.transmit
               [] OTHER ->
                    /\ dte' = <<>>
                    /\ s'.at_rx_mode = s.at_rx_mode
                    /\ s'.modem = s.modem
       /\ (op'.name = "t31_tx" /\ op'.arg # "dry") => dte' = <<>>
       /\ (op'.name = "t31_tx" /\ ~s.transmit) => dte' = <<>> /\ s' = s]_vars

\* A t31_tx call has found the transmitter dry again after the silence of
\* +FTS ended, and has sent nothing
C30_Witness ==
    /\ op.name = "t31_tx"
    /\ op.arg = "dry"
    /\ s.modem = -1
    /\ s.at_rx_mode = "AT_MODE_OFFHOOK_COMMAND"
    /\ dte = <<>>

-----------------------------------------------------------------------------
(* The sample block of t31_tx.  amp is the caller's block of max_len samples *)
(* and out the samples the transmit handlers have for it: n of them when     *)
(* both handlers ran short ("dry"), max_len of them in every other event.    *)

TxBlockLen == 4
Samples == {0, 7}

t31_set_transmit_on_idle(m, transmit_on_idle) ==
    [m EXCEPT !.s.transmit_on_idle = transmit_on_idle]

\* The number of samples the tx handlers wrote in the call
tx_len(m, max_len, e, n) ==
    IF m.s.transmit THEN (IF e = "dry" THEN n ELSE max_len) ELSE 0

\* amp[] at the return of t31_tx: the handlers wrote out[1..len], and
\* memset(amp, 0, max_len*sizeof(int16_t)) follows with transmit_on_idle
t31_tx_amp(m, amp, out, max_len, e, n) ==
    LET len == tx_len(m, max_len, e, n)
        written == [i \in 1..max_len |-> IF i <= len THEN out[i] ELSE amp[i]]
    IN IF t31_tx(m, max_len, e).s.transmit_on_idle
       THEN [i \in 1..max_len |-> 0]
       ELSE written

InitTxIdle == InitWith(t31_init(FALSE, FALSE, 10))

TxIdle_set ==
    \E on \in BOOLEAN :
        Commit(t31_set_transmit_on_idle(Enter(s), on), "t31_set_transmit_on_idle", <<on>>)

TxIdleCmds == {<<TRUE, "S", 1>>, <<TRUE, "M", 96>>}
TxIdle_class1 == Class1(TxIdleCmds)

\* t31_tx(s, amp, max_len) with the block in view
TxIdle_tx ==
    \E e \in {"fill", "dry"}, n \in 0..(TxBlockLen - 1),
       amp \in [1..TxBlockLen -> {3}], out \in [1..TxBlockLen -> Samples] :
        LET m == t31_tx(Enter(s), TxBlockLen, e)
            len == tx_len(Enter(s), TxBlockLen, e, n)
        IN /\ e = "dry" => s.transmit
           /\ Commit([m EXCEPT !.ret = IF m.s.transmit_on_idle THEN TxBlockLen ELSE len],
                     "t31_tx",
                     [e |-> e, len |-> len, out |-> out,
                      amp |-> t31_tx_amp(Enter(s), amp, out, TxBlockLen, e, n)])

NextTxIdle ==
    \/ TxIdle_set
    \/ TxIdle_class1
    \/ TxIdle_tx

SpecTxIdle == InitTxIdle /\ [][NextTxIdle]_vars

\* C31: with transmit_on_idle set, t31_tx returns max_len, leaves the first
\* len samples as the tx handlers produced them, and the samples from len to
\* max_len - 1 are zero.
C31_IdlePadding ==
    [][(op'.name = "t31_tx" /\ s'.transmit_on_idle)
          => /\ obs'.ret = TxBlockLen
             /\ \A i \in 1..TxBlockLen :
                    op'.arg.amp[i] = IF i <= op'.arg.len THEN op'.arg.out[i] ELSE 0]_vars

-----------------------------------------------------------------------------
(* The silence monitor of t31_rx and the wait of +FRS.  The line gives       *)
(* blocks of 850 ms and 860 ms, each all above the threshold power or all at *)
(* or below it.                                                              *)

SilenceVals == {0, 1, 255}

InitSilence == InitWith(t31_init(FALSE, FALSE, 10))

SilenceCmds == {<<FALSE, "S", val>> : val \in SilenceVals} \cup {<<TRUE, "S", 1>>}
Silence_class1 == Class1(SilenceCmds)
SilenceLens == {6800, 6880}
Silence_rx == Rx(SilenceLens, BOOLEAN, {}, {})
Silence_tx == Tx({"dry"})

NextSilence ==
    \/ Silence_class1
    \/ Silence_rx
    \/ Silence_tx

SpecSilence == InitSilence /\ [][NextSilence]_vars

\* The silence counted at the end of the sample loop of a t31_rx call, before
\* the rx handler has run
HeardInCall(st, len, loud) ==
    silence_monitor(Enter(st), len, loud).s.silence_heard

\* C32: silence_heard never exceeds 255 x 10 ms (20400 samples); a block of
\* samples above the threshold power resets it to 0, and a block of samples at
\* or below the threshold counts it up by the length of the block, as far as
\* the cap.
C32_SilenceCap ==
    [][op'.name = "t31_rx"
          => /\ s'.silence_heard <= ms_to_samples(255 * 10)
             /\ \/ s'.silence_heard = 0
                \/ \E len \in {6800, 6880} :
                       s'.silence_heard
                           = Min(s.silence_heard + len, ms_to_samples(255 * 10))]_vars

\* The DTE has given +FRS and has had no answer yet
AwaitingSilence(st) ==
    /\ st.modem = T31_SILENCE_RX
    /\ st.rx_handler = "silence_rx"
    /\ st.at_rx_mode = "AT_MODE_DELIVERY"
    /\ ~st.transmit

\* C33: +FRS=val, for every val in 0..255, leaves the DTE mode DELIVERY and
\* the role SILENCE_RX; the t31_rx call at whose end the line has been silent
\* for val*10 ms sends exactly one OK to the DTE and makes the DTE mode
\* OFFHOOK_COMMAND, and a call before that sends nothing.
C33_WaitForSilence ==
    [][/\ (op'.name = "process_class1_cmd" /\ ~op'.arg[1] /\ op'.arg[2] = "S")
          => /\ s'.at_rx_mode = "AT_MODE_DELIVERY"
             /\ s'.modem = T31_SILENCE_RX
             /\ s'.silence_awaited = op'.arg[3] * 80
             /\ dte' = <<>>
       /\ (op'.name = "t31_rx" /\ AwaitingSilence(s))
          => \A len \in {6800, 6880}, loud \in BOOLEAN :
                 s' = t31_rx(Enter(s), len, loud, op'.arg).s
                 => IF HeardInCall(s, len, loud) >= s.silence_awaited
                    THEN /\ dte' = <<RC(AT_RESPONSE_CODE_OK)>>
                         /\ s'.at_rx_mode = "AT_MODE_OFFHOOK_COMMAND"
                    ELSE /\ dte' = <<>>
                         /\ AwaitingSilence(s')]_vars

-----------------------------------------------------------------------------
(* The S7 wait for a carrier on the calling side.  The DTE has set S7 to 5   *)
(* seconds, the modem has been restarted to CNG or to silence, and blocks of *)
(* 2.5 s of received samples pass.                                           *)

InitS7 ==
    \E role \in {T31_CNG_TONE, T31_NOCNG_TONE}, waiting \in BOOLEAN :
        InitWith([restart_modem(Enter(t31_init(FALSE, FALSE, 5)), role).s
                     EXCEPT !.dte_is_waiting = waiting])

S7Frames == {Frame(<<255, 3, 1, 2>>, TRUE)}
S7_rx == Rx({20000}, {TRUE}, {}, S7Frames)
S7_class1 == Class1({<<FALSE, "H", 3>>})

NextS7 ==
    \/ S7_rx
    \/ S7_class1

SpecS7 == InitS7 /\ [][NextS7]_vars

\* C40: once V.21 framing has been found during CNG_TONE or NOCNG_TONE and
\* the role is V21_RX, no received block makes the engine send NO CARRIER and
\* hang up because call_samples has passed S7.
C40_NoS7Abort ==
    [][(/\ op'.name = "t31_rx"
        /\ s.modem = T31_V21_RX
        /\ s'.call_samples > ms_to_samples(s.s_reg7 * 1000))
          => /\ \A i \in 1..Len(ctl') : ctl'[i][1] # "HANGUP"
             /\ s'.at_rx_mode # "AT_MODE_ONHOOK_COMMAND"
             /\ s'.modem = T31_V21_RX]_vars

=============================================================================
